---- MODULE Spec2Model ----
(***************************************************************************)
(* Model of the incremental, checkpointed extraction of                    *)
(* src/databricks_status.py: the checkpoint table, the pipeline methods    *)
(* process_*_events and the delivery sink they call.                       *)
(*                                                                         *)
(* Time is counted in ticks of the wall clock (datetime.utcnow()).  A      *)
(* source table is a bag of rows of which only the extraction-time column  *)
(* matters; it is kept as a nondecreasing sequence of extraction times and *)
(* a row is named by its position.  A row whose extraction time lies in    *)
(* the future of the clock stands for a row that the source produces at    *)
(* that time (no query bounded by now can see it earlier).                 *)
(***************************************************************************)
EXTENDS Integers, Sequences, FiniteSets, TLC

\* Largest value of the wall clock.
MaxTime == 3
\* Largest number of rows of one source table.
MaxRows == 3
\* timedelta(days=1), in ticks.
Day == 3
\* Ticks per whole second: isoformat() prints the sub-second part only when it
\* is not zero.
Sub == 2

\* monitor_type of the pipelines modelled here; the six process_*_events
\* methods have the same control flow and differ in key and column list.
Kinds == {"warehouse_events", "job_events"}

table_name(k) ==
    CASE k = "warehouse_events" -> "system.compute.warehouse_events"
      [] k = "job_events" -> "system.lakeflow.job_run_timeline"
      [] k = "job_task_events" -> "system.lakeflow.job_task_run_timeline"
      [] k = "query_events" -> "system.query.history"
      [] k = "cluster_events" -> "system.compute.clusters"
      [] k = "audit_events" -> "system.access.audit"

Key(k) == <<k, table_name(k)>>
Keys == {Key(k) : k \in Kinds}

RowTimes == 1..MaxTime

IsSorted(s) == \A i \in 1..(Len(s) - 1) : s[i] <= s[i + 1]
Tables == {s \in UNION {[1..n -> RowTimes] : n \in 0..MaxRows} : IsSorted(s)}

VARIABLES
    clock,              \* datetime.utcnow()
    store,              \* checkpoint table: key -> sequence of last_processed_time, one per row
    source,             \* monitor_type -> source table (extraction times, ascending)
    sink_mocked,        \* TRUE: send_to_splunk is replaced by a stub (as in the tests)
    status_report,      \* BaseStatusMonitor.status_report: <<>> is None
    pc,                 \* position in the running process_*_events call
    monitor_type,       \* the pipeline that runs (or ran last)
    reset_checkpoint,   \* argument of the run
    current_time,       \* local of the run
    last_checkpoint,    \* local of the run: <<>> before it is assigned
    events,             \* cursor.fetchall(): the rows of the batch, by position in the table
    sent,               \* send_to_splunk calls of the run, in order: <<row, result>>
    outcome,            \* how the run ended
    db_log,             \* statements the run executed on the connection, in order
    store0,             \* the checkpoint table when the run started
    store1,             \* the checkpoint table when the run's reset or read returned
    prev,               \* the run before this one: <<>> or <<record>>
    main_pc,            \* position in main(); "off" when main() is not what runs
    environ,            \* os.environ: the names that are set
    argv,               \* sys.argv[1:]
    monitor,            \* main's local `monitor`: "unbound", or the state of its connection
    calls,              \* what main() called and printed after the environment was read, in order
    table_exists,       \* the checkpoint table has been created
    tags,               \* argument of _convert_tags_to_dict
    tag_dict,           \* value _convert_tags_to_dict returned last
    tag_calls,          \* how many times _convert_tags_to_dict was applied
    technology,         \* BaseStatusMonitor.technology of a poller: "prefect", "snowflake", "azure"
    raw_data,           \* what the status API of the poller returns: components or events
    poll_pc,            \* position in generate_status_report / process_all_regions
    region_sends,       \* send_to_splunk calls of process_all_regions, in order
    cluster_row,        \* a row of system.compute.clusters
    event_data,         \* event_data["event"] built from the row
    callers,            \* two processes in get_last_checkpoint on one table: position, key, locals
    raw_incidents,      \* raw_data["incidents"] of the Snowflake status API
    report_incidents,   \* status_report["incidents"] of the Snowflake report: <<>> before it is built
    service_health,     \* what get_service_health returned: <<>> before it returns
    impacted_resources, \* the dict _process_impacted_resources updates
    folded              \* the events _process_impacted_resources was called with, in order

mainVars == <<main_pc, environ, argv, monitor, calls, table_exists>>
tagVars == <<tags, tag_dict, tag_calls>>
pollVars == <<technology, raw_data, poll_pc, region_sends>>
clusterVars == <<cluster_row, event_data>>
raceVars == <<callers>>
healthVars == <<raw_incidents, report_incidents, service_health, impacted_resources, folded>>

vars == <<clock, store, source, sink_mocked, status_report, pc, monitor_type,
          reset_checkpoint, current_time, last_checkpoint, events, sent, outcome,
          db_log, store0, store1, prev, mainVars, tagVars, pollVars, clusterVars, raceVars, healthVars>>

\* The variables of the environment, in the order main() reads them.
EnvVars == <<"DATABRICKS_HOST", "DATABRICKS_HTTP_PATH", "DATABRICKS_TOKEN">>

\* Python values a tags column can hold: None, a dict, a list, a str.
None == [type |-> "NoneType", items |-> <<>>]

----
\* datetime.isoformat() and the cast of the text back to TIMESTAMP.

\* isoformat that always leaves out the sub-second part.
isoformat_Seconds(t) == <<t \div Sub>>

isoformat(t) ==
    IF t % Sub = 0 THEN <<t \div Sub>> ELSE <<t \div Sub, t % Sub>>

\* A cast that reads the whole seconds only.
ToTimestamp_Whole(s) == s[1] * Sub

ToTimestamp(s) ==
    IF Len(s) = 1 THEN s[1] * Sub ELSE s[1] * Sub + s[2]

----
\* The checkpoint table.

\* SELECT last_processed_time ... WHERE key; cursor.fetchone()
fetchone(st, key) == IF Len(st[key]) = 0 THEN <<>> ELSE <<st[key][1]>>

\* INSERT INTO checkpoint_table VALUES (key, text)
InsertRow(st, key, text) == [st EXCEPT ![key] = Append(@, ToTimestamp(text))]

\* UPDATE checkpoint_table SET last_processed_time = text WHERE key
UpdateRows(st, key, text) ==
    [st EXCEPT ![key] = [i \in 1..Len(@) |-> ToTimestamp(text)]]

\* get_last_checkpoint that returns the default without inserting it.
get_last_checkpoint_NoInsert(st, k, utcnow) ==
    LET result == fetchone(st, Key(k))
    IN  IF result # <<>> THEN <<result[1], st>> ELSE <<utcnow - Day, st>>

\* get_last_checkpoint that inserts the default row also when a row is stored.
get_last_checkpoint_AlwaysInsert(st, k, utcnow) ==
    LET key == Key(k)
        result == fetchone(st, key)
        default_time == utcnow - Day
    IN  <<IF result # <<>> THEN result[1] ELSE default_time,
          InsertRow(st, key, isoformat(default_time))>>

\* get_last_checkpoint: <<returned value, table after the call>>
get_last_checkpoint(st, k, utcnow) ==
    LET key == Key(k)
        result == fetchone(st, key)
        default_time == utcnow - Day
    IN  IF result # <<>>
        THEN <<result[1], st>>
        ELSE <<default_time, InsertRow(st, key, isoformat(default_time))>>

\* update_checkpoint whose UPDATE has no WHERE clause: it sets every row.
update_checkpoint_AllRows(st, k, new_timestamp) ==
    [key \in DOMAIN st |->
        [i \in 1..Len(st[key]) |-> ToTimestamp(isoformat(new_timestamp))]]

\* update_checkpoint that deletes the rows of the key and writes none.
update_checkpoint_Delete(st, k, new_timestamp) ==
    [st EXCEPT ![Key(k)] = <<>>]

\* update_checkpoint: the table after the call
update_checkpoint(st, k, new_timestamp) ==
    UpdateRows(st, Key(k), isoformat(new_timestamp))

----
\* The source query of a pipeline: WHERE t > lo AND t <= hi ORDER BY t ASC.

\* SelectRows with the lower bound taken inclusive (>=).
RECURSIVE SelectRows_Inclusive(_, _, _, _)
SelectRows_Inclusive(tbl, lo, hi, i) ==
    IF i > Len(tbl) THEN <<>>
    ELSE IF tbl[i] >= ToTimestamp(lo) /\ tbl[i] <= ToTimestamp(hi)
         THEN <<i>> \o SelectRows_Inclusive(tbl, lo, hi, i + 1)
         ELSE SelectRows_Inclusive(tbl, lo, hi, i + 1)

RECURSIVE SelectRows(_, _, _, _)
SelectRows(tbl, lo, hi, i) ==
    IF i > Len(tbl) THEN <<>>
    ELSE IF tbl[i] > ToTimestamp(lo) /\ tbl[i] <= ToTimestamp(hi)
         THEN <<i>> \o SelectRows(tbl, lo, hi, i + 1)
         ELSE SelectRows(tbl, lo, hi, i + 1)

fetchall(tbl, lo, hi) == SelectRows(tbl, isoformat(lo), isoformat(hi), 1)

\* The extraction time of the first event of the batch instead of the maximum.
MaxTimeOf_First(tbl, evs) == tbl[evs[1]]

\* max(event[5] for event in events)
RECURSIVE MaxTimeOf(_, _)
MaxTimeOf(tbl, evs) ==
    IF Len(evs) = 1 THEN tbl[evs[1]]
    ELSE LET m == MaxTimeOf(tbl, Tail(evs))
         IN  IF tbl[evs[1]] > m THEN tbl[evs[1]] ELSE m

max_event_time == MaxTimeOf(source[monitor_type], events)

----
\* The delivery sink.

\* BaseStatusMonitor.send_to_splunk as inherited: self.status_report.get(...)
\* raises when status_report is None, else the call returns True.
InheritedSend == IF status_report = <<>> THEN "raise" ELSE "true"

\* Results send_to_splunk can give for one call.
SendResults == IF sink_mocked THEN {"true", "false", "raise"} ELSE {InheritedSend}

----
\* Rows of all the source tables together.
RowCount(src) == Len(src["warehouse_events"]) + Len(src["job_events"])

\* The state after construction, but for the pipeline named first.
Start ==
    /\ clock = 0
    /\ store = [key \in Keys |-> <<>>]
    /\ source \in [Kinds -> Tables]
    /\ RowCount(source) <= MaxRows
    /\ sink_mocked \in BOOLEAN
    /\ status_report = <<>>
    /\ pc = "idle"
    /\ reset_checkpoint = FALSE
    /\ current_time = 0
    /\ last_checkpoint = <<>>
    /\ events = <<>>
    /\ sent = <<>>
    /\ outcome = "none"
    /\ db_log = <<>>
    /\ store0 = store
    /\ store1 = store
    /\ prev = <<>>

\* The monitor is constructed and its methods are called directly.
NoMain ==
    /\ main_pc = "off"
    /\ environ = {EnvVars[i] : i \in 1..3}
    /\ argv = <<>>
    /\ monitor = "open"
    /\ calls = <<>>
    /\ table_exists = TRUE

\* _convert_tags_to_dict has not been called.
NoTags ==
    /\ tags = None
    /\ tag_dict = None
    /\ tag_calls = 0

\* No poller runs.
NoPoll ==
    /\ technology = "databricks"
    /\ raw_data = <<>>
    /\ poll_pc = "off"
    /\ region_sends = <<>>

\* No cluster row is formatted.
NoCluster ==
    /\ cluster_row = <<>>
    /\ event_data = <<>>

\* One process only uses the checkpoint table.
NoRace == callers = <<>>

\* No incidents are filtered and no health events are processed.
NoHealth ==
    /\ raw_incidents = <<>>
    /\ report_incidents = <<>>
    /\ service_health = <<>>
    /\ impacted_resources = <<>>
    /\ folded = <<>>

Init == Start /\ NoMain /\ NoTags /\ NoPoll /\ NoCluster /\ NoRace /\ NoHealth /\ monitor_type = "warehouse_events"

\* A process that runs one pipeline again and again.
InitPair ==
    /\ Start
    /\ NoMain
    /\ NoTags
    /\ NoPoll
    /\ NoCluster
    /\ NoRace
    /\ NoHealth
    /\ monitor_type \in Kinds
    /\ \A k \in Kinds \ {monitor_type} : source[k] = <<>>

\* The wall clock advances.  The program reads it when a run starts and inside
\* get_last_checkpoint only, so a tick elsewhere in a run is the same as one later.
Tick ==
    /\ clock < MaxTime
    /\ pc \in {"idle", "done", "checkpoint"}
    /\ clock' = clock + 1
    /\ UNCHANGED <<store, source, sink_mocked, status_report, pc, monitor_type,
                   reset_checkpoint, current_time, last_checkpoint, events, sent,
                   outcome, db_log, store0, store1, prev, mainVars, tagVars, pollVars, clusterVars, raceVars, healthVars>>

ThisRun ==
    [monitor_type |-> monitor_type, reset_checkpoint |-> reset_checkpoint,
     current_time |-> current_time, last_checkpoint |-> last_checkpoint,
     events |-> events, sent |-> sent, outcome |-> outcome]

\* process_*_events(reset_checkpoint) is called: current_time = datetime.utcnow()
Begin(k, r) ==
    /\ pc \in {"idle", "done"}
    /\ monitor_type' = k
    /\ reset_checkpoint' = r
    /\ current_time' = clock
    /\ last_checkpoint' = <<>>
    /\ events' = <<>>
    /\ sent' = <<>>
    /\ outcome' = "running"
    /\ db_log' = <<>>
    /\ store0' = store
    /\ store1' = store
    /\ pc' = "checkpoint"
    /\ UNCHANGED <<clock, store, source, sink_mocked, status_report>>

\* A run of any pipeline.
StartRun(k, r) == Begin(k, r) /\ UNCHANGED <<prev, mainVars, tagVars, pollVars, clusterVars, raceVars, healthVars>>

\* One more run of the same pipeline; the run before it is kept for reference.
Rerun(r) ==
    /\ Begin(monitor_type, r)
    /\ prev' = IF pc = "done" THEN <<ThisRun>> ELSE <<>>
    /\ UNCHANGED <<mainVars, tagVars, pollVars, clusterVars, raceVars, healthVars>>

\* except Exception: print; raise
Raise ==
    /\ pc' = "done"
    /\ outcome' = "raised"

\* ResetStep that keeps a watermark it finds stored as the lower bound.
ResetStep_KeepsStored(fails) ==
    /\ pc = "checkpoint"
    /\ reset_checkpoint
    /\ last_checkpoint' = IF fetchone(store, Key(monitor_type)) # <<>>
                          THEN fetchone(store, Key(monitor_type))
                          ELSE <<current_time - Day>>
    /\ db_log' = Append(db_log, "update")
    /\ IF fails
       THEN Raise /\ UNCHANGED store
       ELSE /\ store' = update_checkpoint(store, monitor_type, current_time - Day)
            /\ pc' = "query"
            /\ UNCHANGED outcome
    /\ store1' = store'
    /\ UNCHANGED <<clock, source, sink_mocked, status_report, monitor_type,
                   reset_checkpoint, current_time, events, sent, store0, prev, mainVars, tagVars, pollVars, clusterVars, raceVars, healthVars>>

\* if reset_checkpoint: last_checkpoint = current_time - 1 day; update_checkpoint(...)
ResetStep(fails) ==
    /\ pc = "checkpoint"
    /\ reset_checkpoint
    /\ last_checkpoint' = <<current_time - Day>>
    /\ db_log' = Append(db_log, "update")
    /\ IF fails
       THEN Raise /\ UNCHANGED store
       ELSE /\ store' = update_checkpoint(store, monitor_type, current_time - Day)
            /\ pc' = "query"
            /\ UNCHANGED outcome
    /\ store1' = store'
    /\ UNCHANGED <<clock, source, sink_mocked, status_report, monitor_type,
                   reset_checkpoint, current_time, events, sent, store0, prev, mainVars, tagVars, pollVars, clusterVars, raceVars, healthVars>>

\* else: last_checkpoint = self.get_last_checkpoint(monitor_type, table_name)
GetStep(fails) ==
    /\ pc = "checkpoint"
    /\ ~reset_checkpoint
    /\ LET got == get_last_checkpoint(store, monitor_type, clock)
       IN  IF fails
           THEN /\ Raise
                /\ db_log' = Append(db_log, "select")
                /\ UNCHANGED <<store, last_checkpoint>>
           ELSE /\ last_checkpoint' = <<got[1]>>
                /\ store' = got[2]
                /\ db_log' = IF got[2] = store
                             THEN Append(db_log, "select")
                             ELSE db_log \o <<"select", "insert">>
                /\ pc' = "query"
                /\ UNCHANGED outcome
    /\ store1' = store'
    /\ UNCHANGED <<clock, source, sink_mocked, status_report, monitor_type,
                   reset_checkpoint, current_time, events, sent, store0, prev, mainVars, tagVars, pollVars, clusterVars, raceVars, healthVars>>

\* cursor.execute(query); events = cursor.fetchall(); if not events: return
QueryStep(fails) ==
    /\ pc = "query"
    /\ db_log' = Append(db_log, "query")
    /\ IF fails
       THEN Raise /\ UNCHANGED events
       ELSE /\ events' = fetchall(source[monitor_type], last_checkpoint[1], current_time)
            /\ IF events' = <<>>
               THEN pc' = "done" /\ outcome' = "empty"
               ELSE pc' = "deliver" /\ UNCHANGED outcome
    /\ UNCHANGED <<clock, store, source, sink_mocked, status_report, monitor_type,
                   reset_checkpoint, current_time, last_checkpoint, sent, store0,
                   store1, prev, mainVars, tagVars, pollVars, clusterVars, raceVars, healthVars>>

\* AfterSend with the rejection of a delivery not looked at.
AfterSend_IgnoreFalse(result, n) ==
    CASE result = "raise" -> <<"done", "raised">>
      [] OTHER -> IF n = Len(events) THEN <<"commit", "running">>
                  ELSE <<"deliver", "running">>

\* AfterSend with an exception of send_to_splunk caught inside the loop: the
\* loop goes on as after True.
AfterSend_CatchRaise(result, n) ==
    CASE result = "false" -> <<"done", "rejected">>
      [] OTHER -> IF n = Len(events) THEN <<"commit", "running">>
                  ELSE <<"deliver", "running">>

\* Where the loop goes after send_to_splunk gave `result` for one more event.
AfterSend(result, n) ==
    CASE result = "raise" -> <<"done", "raised">>
      [] result = "false" -> <<"done", "rejected">>
      [] result = "true" -> IF n = Len(events) THEN <<"commit", "running">>
                            ELSE <<"deliver", "running">>

\* for event in events: success = self.send_to_splunk(...); if not success: return
DeliverStep(result) ==
    /\ pc = "deliver"
    /\ result \in SendResults
    /\ LET n == Len(sent) + 1
           next == AfterSend(result, n)
       IN  /\ sent' = Append(sent, <<events[n], result>>)
           /\ pc' = next[1]
           /\ outcome' = next[2]
    /\ UNCHANGED <<clock, store, source, sink_mocked, status_report, monitor_type,
                   reset_checkpoint, current_time, last_checkpoint, events, db_log,
                   store0, store1, prev, mainVars, tagVars, pollVars, clusterVars, raceVars, healthVars>>

\* CommitStep whose write has taken effect when the statement raises.
CommitStep_WriteThenFail(fails) ==
    /\ pc = "commit"
    /\ db_log' = Append(db_log, "update")
    /\ store' = update_checkpoint(store, monitor_type, max_event_time)
    /\ IF fails
       THEN Raise
       ELSE /\ pc' = "done"
            /\ outcome' = "committed"
    /\ UNCHANGED <<clock, source, sink_mocked, status_report, monitor_type,
                   reset_checkpoint, current_time, last_checkpoint, events, sent,
                   store0, store1, prev, mainVars, tagVars, pollVars, clusterVars, raceVars, healthVars>>

\* max_event_time = max(...); self.update_checkpoint(monitor_type, table_name, max_event_time)
CommitStep(fails) ==
    /\ pc = "commit"
    /\ db_log' = Append(db_log, "update")
    /\ IF fails
       THEN Raise /\ UNCHANGED store
       ELSE /\ store' = update_checkpoint(store, monitor_type, max_event_time)
            /\ pc' = "done"
            /\ outcome' = "committed"
    /\ UNCHANGED <<clock, source, sink_mocked, status_report, monitor_type,
                   reset_checkpoint, current_time, last_checkpoint, events, sent,
                   store0, store1, prev, mainVars, tagVars, pollVars, clusterVars, raceVars, healthVars>>

Next ==
    \/ Tick
    \/ \E k \in Kinds, r \in BOOLEAN : StartRun(k, r)
    \/ \E fails \in BOOLEAN : ResetStep(fails)
    \/ \E fails \in BOOLEAN : GetStep(fails)
    \/ \E fails \in BOOLEAN : QueryStep(fails)
    \/ \E result \in {"true", "false", "raise"} : DeliverStep(result)
    \/ \E fails \in BOOLEAN : CommitStep(fails)

Spec == Init /\ [][Next]_vars

NextPair ==
    \/ Tick
    \/ \E r \in BOOLEAN : Rerun(r)
    \/ \E fails \in BOOLEAN : ResetStep(fails)
    \/ \E fails \in BOOLEAN : GetStep(fails)
    \/ \E fails \in BOOLEAN : QueryStep(fails)
    \/ \E result \in {"true", "false", "raise"} : DeliverStep(result)
    \/ \E fails \in BOOLEAN : CommitStep(fails)

SpecPair == InitPair /\ [][NextPair]_vars

----
\* main(): the environment, the constructor, ensure_checkpoint_table, the six
\* pipelines, and the finally clause.

\* Largest number of rows of a source table when main() runs.
MainRows == 1

\* The pipelines in the order main() calls them.
Pipelines_JobTaskLast ==
    <<"warehouse_events", "job_events", "query_events", "cluster_events",
      "audit_events", "job_task_events">>

Pipelines ==
    <<"warehouse_events", "job_events", "job_task_events", "query_events",
      "cluster_events", "audit_events">>

AllKinds == {Pipelines[i] : i \in 1..Len(Pipelines)}
AllKeys == {Key(k) : k \in AllKinds}

\* The source tables main() runs on: one of them may hold rows.
MainSources ==
    {[k \in AllKinds |-> IF k = k1 THEN t ELSE <<>>] :
        k1 \in AllKinds, t \in {x \in Tables : Len(x) <= MainRows}}

\* Command lines main() is started with.
Argvs == {<<>>, <<"--reset">>}

\* get_env_var with a default of "" in place of None.
get_env_var_Default(env, var_name) == IF var_name \in env THEN "set" ELSE ""

\* get_env_var: the value, or the exception it raises.
get_env_var(env, var_name) == IF var_name \in env THEN "set" ELSE "ValueError"

\* The argument main() gives the pipeline: process_warehouse_events(True),
\* the others reset_checkpoint = "--reset" in sys.argv.
ResetArg(k, av) ==
    IF k = "warehouse_events" THEN TRUE
    ELSE \E i \in 1..Len(av) : av[i] = "--reset"

\* The pipelines main() has called so far.
Called == SelectSeq(calls, LAMBDA c : c \in AllKinds)

\* main() has ended: it returned, or an exception left it.
MainEnded == main_pc \in {"returned", "ValueError", "UnboundLocalError"}

\* A process is started with nothing stored and no checkpoint table.
InitMain ==
    /\ clock = 0
    /\ store = [k \in AllKeys |-> <<>>]
    /\ source \in MainSources
    /\ sink_mocked \in BOOLEAN
    /\ status_report = <<>>
    /\ pc = "idle"
    /\ monitor_type = "warehouse_events"
    /\ reset_checkpoint = FALSE
    /\ current_time = 0
    /\ last_checkpoint = <<>>
    /\ events = <<>>
    /\ sent = <<>>
    /\ outcome = "none"
    /\ db_log = <<>>
    /\ store0 = store
    /\ store1 = store
    /\ prev = <<>>
    /\ main_pc = "env"
    /\ environ \in SUBSET {EnvVars[i] : i \in 1..3}
    /\ argv \in Argvs
    /\ monitor = "unbound"
    /\ calls = <<>>
    /\ table_exists = FALSE
    /\ NoTags
    /\ NoPoll
    /\ NoCluster
    /\ NoRace
    /\ NoHealth

\* server_hostname = get_env_var(...); http_path = ...; access_token = ...
MainEnv ==
    /\ main_pc = "env"
    /\ main_pc' = IF \E i \in 1..3 : get_env_var(environ, EnvVars[i]) = "ValueError"
                  THEN "ValueError"
                  ELSE "construct"
    /\ UNCHANGED <<clock, store, source, sink_mocked, status_report, pc, monitor_type,
                   reset_checkpoint, current_time, last_checkpoint, events, sent,
                   outcome, db_log, store0, store1, prev, environ, argv, monitor,
                   calls, table_exists, tagVars, pollVars, clusterVars, raceVars, healthVars>>

\* monitor = DatabricksStatusMonitor(...): databricks.sql.connect may raise
MainConstruct(fails) ==
    /\ main_pc = "construct"
    /\ IF fails
       THEN /\ calls' = Append(calls, "print_error")
            /\ main_pc' = "finally"
            /\ UNCHANGED monitor
       ELSE /\ monitor' = "open"
            /\ main_pc' = "ensure"
            /\ UNCHANGED calls
    /\ UNCHANGED <<clock, store, source, sink_mocked, status_report, pc, monitor_type,
                   reset_checkpoint, current_time, last_checkpoint, events, sent,
                   outcome, db_log, store0, store1, prev, environ, argv,
                   table_exists, tagVars, pollVars, clusterVars, raceVars, healthVars>>

\* monitor.ensure_checkpoint_table(): CREATE TABLE IF NOT EXISTS
MainEnsure(fails) ==
    /\ main_pc = "ensure"
    /\ IF fails
       THEN /\ calls' = calls \o <<"ensure_checkpoint_table", "print_error">>
            /\ main_pc' = "finally"
            /\ UNCHANGED table_exists
       ELSE /\ calls' = Append(calls, "ensure_checkpoint_table")
            /\ table_exists' = TRUE
            /\ main_pc' = "pipelines"
    /\ UNCHANGED <<clock, store, source, sink_mocked, status_report, pc, monitor_type,
                   reset_checkpoint, current_time, last_checkpoint, events, sent,
                   outcome, db_log, store0, store1, prev, environ, argv, monitor,
                   tagVars, pollVars, clusterVars, raceVars, healthVars>>

\* monitor.process_<k>(...): the next pipeline of main()
MainCall ==
    /\ main_pc = "pipelines"
    /\ outcome # "raised"
    /\ Len(Called) < Len(Pipelines)
    /\ LET k == Pipelines[Len(Called) + 1]
       IN  /\ Begin(k, ResetArg(k, argv))
           /\ calls' = Append(calls, k)
    /\ UNCHANGED <<prev, main_pc, environ, argv, monitor, table_exists, tagVars, pollVars, clusterVars, raceVars, healthVars>>

\* except Exception as e: print(f"Error: {str(e)}")
MainExcept ==
    /\ main_pc = "pipelines"
    /\ pc = "done"
    /\ outcome = "raised"
    /\ calls' = Append(calls, "print_error")
    /\ main_pc' = "finally"
    /\ UNCHANGED <<clock, store, source, sink_mocked, status_report, pc, monitor_type,
                   reset_checkpoint, current_time, last_checkpoint, events, sent,
                   outcome, db_log, store0, store1, prev, environ, argv, monitor,
                   table_exists, tagVars, pollVars, clusterVars, raceVars, healthVars>>

\* The last pipeline has returned: the try block is left.
MainLeaveTry ==
    /\ main_pc = "pipelines"
    /\ pc = "done"
    /\ outcome # "raised"
    /\ Len(Called) = Len(Pipelines)
    /\ main_pc' = "finally"
    /\ UNCHANGED <<clock, store, source, sink_mocked, status_report, pc, monitor_type,
                   reset_checkpoint, current_time, last_checkpoint, events, sent,
                   outcome, db_log, store0, store1, prev, environ, argv, monitor,
                   calls, table_exists, tagVars, pollVars, clusterVars, raceVars, healthVars>>

\* A finally clause that leaves the connection open.
MainFinally_Leak ==
    /\ main_pc = "finally"
    /\ main_pc' = IF monitor = "unbound" THEN "UnboundLocalError" ELSE "returned"
    /\ UNCHANGED <<clock, store, source, sink_mocked, status_report, pc, monitor_type,
                   reset_checkpoint, current_time, last_checkpoint, events, sent,
                   outcome, db_log, store0, store1, prev, environ, argv, monitor,
                   calls, table_exists, tagVars, pollVars, clusterVars, raceVars, healthVars>>

\* finally: if monitor and monitor.connection: monitor.connection.close()
\* `monitor` is assigned inside the try block only: reading it unbound raises.
MainFinally ==
    /\ main_pc = "finally"
    /\ IF monitor = "unbound"
       THEN /\ main_pc' = "UnboundLocalError"
            /\ UNCHANGED <<monitor, calls>>
       ELSE /\ monitor' = "closed"
            /\ calls' = Append(calls, "close")
            /\ main_pc' = "returned"
    /\ UNCHANGED <<clock, store, source, sink_mocked, status_report, pc, monitor_type,
                   reset_checkpoint, current_time, last_checkpoint, events, sent,
                   outcome, db_log, store0, store1, prev, environ, argv,
                   table_exists, tagVars, pollVars, clusterVars, raceVars, healthVars>>

NextMain ==
    \/ Tick
    \/ MainEnv
    \/ \E fails \in BOOLEAN : MainConstruct(fails)
    \/ \E fails \in BOOLEAN : MainEnsure(fails)
    \/ MainCall
    \/ \E fails \in BOOLEAN : ResetStep(fails)
    \/ \E fails \in BOOLEAN : GetStep(fails)
    \/ \E fails \in BOOLEAN : QueryStep(fails)
    \/ \E result \in {"true", "false", "raise"} : DeliverStep(result)
    \/ \E fails \in BOOLEAN : CommitStep(fails)
    \/ MainExcept
    \/ MainLeaveTry
    \/ MainFinally

SpecMain == InitMain /\ [][NextMain]_vars

----
\* The methods of one monitor called in any order: ensure_checkpoint_table,
\* get_last_checkpoint, update_checkpoint and runs of a pipeline.

\* No checkpoint table yet; the statements of the run need the table.
InitStore ==
    /\ Start
    /\ NoTags
    /\ NoPoll
    /\ NoCluster
    /\ NoRace
    /\ NoHealth
    /\ monitor_type = "warehouse_events"
    /\ \A k \in Kinds \ {monitor_type} : source[k] = <<>>
    /\ Len(source[monitor_type]) <= MainRows
    /\ main_pc = "off"
    /\ environ = {EnvVars[i] : i \in 1..3}
    /\ argv = <<>>
    /\ monitor = "open"
    /\ calls = <<>>
    /\ table_exists = FALSE

\* monitor.ensure_checkpoint_table(): CREATE TABLE IF NOT EXISTS leaves the
\* rows of a table that exists alone.
CallEnsure ==
    /\ pc \in {"idle", "done"}
    /\ table_exists' = TRUE
    /\ UNCHANGED <<clock, store, source, sink_mocked, status_report, pc, monitor_type,
                   reset_checkpoint, current_time, last_checkpoint, events, sent,
                   outcome, db_log, store0, store1, prev, main_pc, environ, argv,
                   monitor, calls, tagVars, pollVars, clusterVars, raceVars, healthVars>>

\* monitor.get_last_checkpoint(monitor_type, table_name), called directly
CallGet(k) ==
    /\ pc \in {"idle", "done"}
    /\ table_exists
    /\ store' = get_last_checkpoint(store, k, clock)[2]
    /\ UNCHANGED <<clock, source, sink_mocked, status_report, pc, monitor_type,
                   reset_checkpoint, current_time, last_checkpoint, events, sent,
                   outcome, db_log, store0, store1, prev, mainVars, tagVars, pollVars, clusterVars, raceVars, healthVars>>

\* monitor.update_checkpoint(monitor_type, table_name, new_timestamp), called directly
CallUpdate(k, new_timestamp) ==
    /\ pc \in {"idle", "done"}
    /\ table_exists
    /\ store' = update_checkpoint(store, k, new_timestamp)
    /\ UNCHANGED <<clock, source, sink_mocked, status_report, pc, monitor_type,
                   reset_checkpoint, current_time, last_checkpoint, events, sent,
                   outcome, db_log, store0, store1, prev, mainVars, tagVars, pollVars, clusterVars, raceVars, healthVars>>

NextStore ==
    \/ CallEnsure
    \/ \E k \in Kinds : CallGet(k)
    \/ \E k \in Kinds : CallUpdate(k, clock)
    \/ (table_exists /\ Tick)
    \/ \E r \in BOOLEAN : (table_exists /\ StartRun(monitor_type, r))
    \/ \E fails \in BOOLEAN : ResetStep(fails)
    \/ \E fails \in BOOLEAN : GetStep(fails)
    \/ \E fails \in BOOLEAN : QueryStep(fails)
    \/ \E result \in {"true", "false", "raise"} : DeliverStep(result)
    \/ \E fails \in BOOLEAN : CommitStep(fails)

SpecStore == InitStore /\ [][NextStore]_vars

----
\* Two processes call get_last_checkpoint on one checkpoint table; the SELECT
\* and the INSERT of a call are two statements, and statements of the other
\* process can come between them.

Callers == 1..2

InitRace ==
    /\ Start
    /\ source = [k \in Kinds |-> <<>>]
    /\ sink_mocked = TRUE
    /\ monitor_type = "warehouse_events"
    /\ NoMain
    /\ NoTags
    /\ NoPoll
    /\ NoCluster
    /\ NoHealth
    /\ callers = [p \in Callers |->
                     [pc |-> "idle", monitor_type |-> "warehouse_events", result |-> <<>>]]

\* self.get_last_checkpoint(monitor_type, table_name) is called in process p
RaceCall(p, k) ==
    /\ callers[p].pc \in {"idle", "returned", "raised"}
    /\ callers' = [callers EXCEPT ![p] = [pc |-> "select", monitor_type |-> k, result |-> <<>>]]
    /\ UNCHANGED <<clock, store, source, sink_mocked, status_report, pc, monitor_type,
                   reset_checkpoint, current_time, last_checkpoint, events, sent,
                   outcome, db_log, store0, store1, prev, mainVars, tagVars,
                   pollVars, clusterVars, healthVars>>

\* cursor.execute(query); result = cursor.fetchone(); if result: return result[0]
RaceSelect(p) ==
    /\ callers[p].pc = "select"
    /\ LET result == fetchone(store, Key(callers[p].monitor_type))
       IN  callers' = [callers EXCEPT ![p].result = result,
                                      ![p].pc = IF result # <<>> THEN "returned" ELSE "insert"]
    /\ UNCHANGED <<clock, store, source, sink_mocked, status_report, pc, monitor_type,
                   reset_checkpoint, current_time, last_checkpoint, events, sent,
                   outcome, db_log, store0, store1, prev, mainVars, tagVars,
                   pollVars, clusterVars, healthVars>>

\* default_time = datetime.utcnow() - timedelta(days=1); cursor.execute(INSERT ...);
\* return default_time.  The table declares PRIMARY KEY (monitor_type,
\* table_name): a table that enforces it rejects a second row for the key and
\* the call raises; a Databricks table keeps the constraint as information
\* only and takes the row.
RaceInsert(p, enforced) ==
    /\ callers[p].pc = "insert"
    /\ LET k == callers[p].monitor_type
           default_time == clock - Day
       IN  IF enforced /\ store[Key(k)] # <<>>
           THEN /\ callers' = [callers EXCEPT ![p].pc = "raised"]
                /\ UNCHANGED store
           ELSE /\ store' = InsertRow(store, Key(k), isoformat(default_time))
                /\ callers' = [callers EXCEPT ![p].pc = "returned",
                                              ![p].result = <<default_time>>]
    /\ UNCHANGED <<clock, source, sink_mocked, status_report, pc, monitor_type,
                   reset_checkpoint, current_time, last_checkpoint, events, sent,
                   outcome, db_log, store0, store1, prev, mainVars, tagVars,
                   pollVars, clusterVars, healthVars>>

NextRace ==
    \/ Tick
    \/ \E p \in Callers, k \in Kinds : RaceCall(p, k)
    \/ \E p \in Callers : RaceSelect(p)
    \/ \E p \in Callers, enforced \in BOOLEAN : RaceInsert(p, enforced)

SpecRace == InitRace /\ [][NextRace]_vars

----
\* Runs of one of the six pipelines on a checkpoint table that holds rows of
\* any of the six keys.

\* Rows earlier runs of the pipelines have left: one row or none for a key.
OwnerStores ==
    {[key \in AllKeys |-> IF key \in S THEN <<0>> ELSE <<>>] : S \in SUBSET AllKeys}

InitOwner ==
    /\ clock = 0
    /\ store \in OwnerStores
    /\ monitor_type \in AllKinds
    /\ source \in {src \in MainSources : \A k \in AllKinds \ {monitor_type} : src[k] = <<>>}
    /\ sink_mocked = TRUE
    /\ status_report = <<>>
    /\ pc = "idle"
    /\ reset_checkpoint = FALSE
    /\ current_time = 0
    /\ last_checkpoint = <<>>
    /\ events = <<>>
    /\ sent = <<>>
    /\ outcome = "none"
    /\ db_log = <<>>
    /\ store0 = store
    /\ store1 = store
    /\ prev = <<>>
    /\ NoMain
    /\ NoTags
    /\ NoPoll
    /\ NoCluster
    /\ NoRace
    /\ NoHealth

NextOwner ==
    \/ Tick
    \/ \E r \in BOOLEAN : (pc = "idle" /\ StartRun(monitor_type, r))
    \/ \E fails \in BOOLEAN : ResetStep(fails)
    \/ \E fails \in BOOLEAN : GetStep(fails)
    \/ \E fails \in BOOLEAN : QueryStep(fails)
    \/ \E result \in {"true", "false", "raise"} : DeliverStep(result)
    \/ \E fails \in BOOLEAN : CommitStep(fails)

SpecOwner == InitOwner /\ [][NextOwner]_vars

----
\* One pipeline run again and again with reset=false, each run started after
\* the one before it has ended (returned or raised).

\* Largest number of rows of the source table of the pipeline that is rerun.
LiveRows == 2

InitLive ==
    /\ clock = 0
    /\ store \in {[k \in Keys |-> <<>>],
                  [k \in Keys |-> IF k = Key("warehouse_events") THEN <<0>> ELSE <<>>]}
    /\ monitor_type = "warehouse_events"
    /\ source \in {[k \in Kinds |-> IF k = monitor_type THEN t ELSE <<>>] :
                      t \in {x \in Tables : Len(x) <= LiveRows}}
    /\ sink_mocked = TRUE
    /\ status_report = <<>>
    /\ pc = "idle"
    /\ reset_checkpoint = FALSE
    /\ current_time = 0
    /\ last_checkpoint = <<>>
    /\ events = <<>>
    /\ sent = <<>>
    /\ outcome = "none"
    /\ db_log = <<>>
    /\ store0 = store
    /\ store1 = store
    /\ prev = <<>>
    /\ NoMain
    /\ NoTags
    /\ NoPoll
    /\ NoCluster
    /\ NoRace
    /\ NoHealth

NextLive ==
    \/ Tick
    \/ Rerun(FALSE)
    \/ \E fails \in BOOLEAN : GetStep(fails)
    \/ \E fails \in BOOLEAN : QueryStep(fails)
    \/ \E result \in {"true", "false", "raise"} : DeliverStep(result)
    \/ \E fails \in BOOLEAN : CommitStep(fails)

\* The pipeline is run again whenever a run has ended, and no statement and no
\* delivery fails every time it is tried: the checkpoint read, the query, the
\* delivery of the n-th row of a batch and the commit each succeed at some try.
FairLive ==
    /\ WF_vars(Rerun(FALSE))
    /\ SF_vars(GetStep(FALSE))
    /\ SF_vars(QueryStep(FALSE))
    /\ \A n \in 1..LiveRows : SF_vars(Len(sent) = n - 1 /\ DeliverStep("true"))
    /\ SF_vars(CommitStep(FALSE))

SpecLive == InitLive /\ [][NextLive]_vars /\ FairLive

----
\* _convert_tags_to_dict and the values of a tags column.

\* Largest number of elements of a tags list.
MaxTags == 2

\* Keys and values of tags.
TagStrings == {"env", "team"}

\* Elements of a tags list: tuples of 0 to 3 strings, and a value that is not
\* a sequence at all (an int), for which len() raises TypeError.
TagTuples ==
    {[type |-> "tuple", items |-> t] :
        t \in UNION {[1..n -> TagStrings] : n \in 0..3}}
    \cup {[type |-> "int", items |-> <<>>]}

\* dict values: a function from the keys to the values
Dicts ==
    {[type |-> "dict", items |-> f] :
        f \in UNION {[ks -> TagStrings] : ks \in SUBSET TagStrings}}
Lists ==
    {[type |-> "list", items |-> l] :
        l \in UNION {[1..n -> TagTuples] : n \in 0..MaxTags}}
Strs == {[type |-> "str", items |-> x] : x \in {"", "env=prod"}}

TagInputs == {None} \cup Dicts \cup Lists \cup Strs

EmptyDict == [type |-> "dict", items |-> <<>>]

\* Equality of Python values.
PyEq(a, b) == a.type = b.type /\ a.items = b.items

\* bool(v): None, an empty dict, an empty list and "" are false.
Truthy(v) ==
    CASE v.type = "NoneType" -> FALSE
      [] v.type = "dict" -> DOMAIN v.items # {}
      [] v.type = "list" -> Len(v.items) > 0
      [] v.type = "str" -> v.items # ""

\* {tag[0]: tag[1] for tag in tags if len(tag) == 2}: a later pair with the
\* same key replaces an earlier one.
RECURSIVE DictOfPairs(_, _)
DictOfPairs(l, n) ==
    IF n = 0 THEN <<>>
    ELSE LET d == DictOfPairs(l, n - 1)
             tag == l[n].items
         IN  IF Len(tag) = 2
             THEN [x \in (DOMAIN d) \cup {tag[1]} |->
                      IF x = tag[1] THEN tag[2] ELSE d[x]]
             ELSE d

\* What the exception of a call stands for as the value of the call.
TypeError == [type |-> "TypeError", items |-> <<>>]

\* The comprehension over a list: len(tag) raises for an element without len().
Comprehension(l) ==
    IF \E i \in 1..Len(l) : l[i].type # "tuple"
    THEN TypeError
    ELSE [type |-> "dict", items |-> DictOfPairs(l, Len(l))]

\* _convert_tags_to_dict that takes lists only.
convert_tags_to_dict_ListsOnly(v) ==
    IF ~Truthy(v) THEN EmptyDict
    ELSE IF v.type = "list"
         THEN Comprehension(v.items)
         ELSE EmptyDict

\* DatabricksStatusMonitor._convert_tags_to_dict
convert_tags_to_dict(v) ==
    IF ~Truthy(v) THEN EmptyDict
    ELSE IF v.type = "dict" THEN v
    ELSE IF v.type = "list"
         THEN Comprehension(v.items)
         ELSE EmptyDict

\* A row whose tags column holds any of the values.
InitTags ==
    /\ clock = 0
    /\ store = [k \in Keys |-> <<>>]
    /\ source = [k \in Kinds |-> <<>>]
    /\ sink_mocked = TRUE
    /\ status_report = <<>>
    /\ pc = "idle"
    /\ monitor_type = "warehouse_events"
    /\ reset_checkpoint = FALSE
    /\ current_time = 0
    /\ last_checkpoint = <<>>
    /\ events = <<>>
    /\ sent = <<>>
    /\ outcome = "none"
    /\ db_log = <<>>
    /\ store0 = store
    /\ store1 = store
    /\ prev = <<>>
    /\ NoMain
    /\ tags \in TagInputs
    /\ NoPoll
    /\ NoCluster
    /\ NoRace
    /\ NoHealth
    /\ tag_dict = None
    /\ tag_calls = 0

\* "tags": self._convert_tags_to_dict(event[6])
Normalize ==
    /\ tag_calls = 0
    /\ tag_dict' = convert_tags_to_dict(tags)
    /\ tag_calls' = 1
    /\ UNCHANGED <<clock, store, source, sink_mocked, status_report, pc, monitor_type,
                   reset_checkpoint, current_time, last_checkpoint, events, sent,
                   outcome, db_log, store0, store1, prev, mainVars, tags, pollVars, clusterVars, raceVars, healthVars>>

\* _convert_tags_to_dict applied to a value it returned.
Renormalize ==
    /\ tag_calls = 1
    /\ tag_dict.type = "dict"
    /\ tag_dict' = convert_tags_to_dict(tag_dict)
    /\ tag_calls' = 2
    /\ UNCHANGED <<clock, store, source, sink_mocked, status_report, pc, monitor_type,
                   reset_checkpoint, current_time, last_checkpoint, events, sent,
                   outcome, db_log, store0, store1, prev, mainVars, tags, pollVars, clusterVars, raceVars, healthVars>>

NextTags == Normalize \/ Renormalize

SpecTags == InitTags /\ [][NextTags]_vars

----
\* The event a cluster row is formatted to (process_cluster_events).

\* None in a TIMESTAMP column.
NoTime == 0

\* Rows of system.compute.clusters: create_time (event[5]), delete_time
\* (event[6]), cluster_source (event[15]) and change_time (event[21]).
ClusterRows ==
    [create_time : 0..MaxTime, delete_time : 0..MaxTime,
     cluster_source : {"UI", "JOB"}, change_time : 1..MaxTime]

\* event_type taken from delete_time.
ClusterEventType_ByDelete(event) ==
    IF event.delete_time = NoTime THEN "CLUSTER_CREATED" ELSE "CLUSTER_DELETED"

\* "CLUSTER_CREATED" if event[5] == event[21] else "CLUSTER_DELETED"
ClusterEventType(event) ==
    IF event.create_time = event.change_time THEN "CLUSTER_CREATED"
    ELSE "CLUSTER_DELETED"

\* event_data["event"], the columns above
ClusterEvent(event) ==
    [create_time |-> IF event.create_time # NoTime
                     THEN isoformat(event.create_time) ELSE <<>>,
     delete_time |-> IF event.delete_time # NoTime
                     THEN isoformat(event.delete_time) ELSE <<>>,
     cluster_source |-> event.cluster_source,
     change_time |-> isoformat(event.change_time),
     event_type |-> ClusterEventType(event)]

\* A row of the batch of process_cluster_events.
InitCluster ==
    /\ clock = 0
    /\ store = [k \in Keys |-> <<>>]
    /\ source = [k \in Kinds |-> <<>>]
    /\ sink_mocked = TRUE
    /\ status_report = <<>>
    /\ pc = "idle"
    /\ monitor_type = "cluster_events"
    /\ reset_checkpoint = FALSE
    /\ current_time = 0
    /\ last_checkpoint = <<>>
    /\ events = <<>>
    /\ sent = <<>>
    /\ outcome = "none"
    /\ db_log = <<>>
    /\ store0 = store
    /\ store1 = store
    /\ NoRace
    /\ NoHealth
    /\ prev = <<>>
    /\ NoMain
    /\ NoTags
    /\ NoPoll
    /\ cluster_row \in ClusterRows
    /\ event_data = <<>>

\* for event in events: event_type = ...; event_data = {...}
FormatClusterEvent ==
    /\ event_data = <<>>
    /\ event_data' = <<ClusterEvent(cluster_row)>>
    /\ UNCHANGED <<clock, store, source, sink_mocked, status_report, pc, monitor_type,
                   reset_checkpoint, current_time, last_checkpoint, events, sent,
                   outcome, db_log, store0, store1, prev, mainVars, tagVars,
                   pollVars, cluster_row, raceVars, healthVars>>

NextCluster == FormatClusterEvent

SpecCluster == InitCluster /\ [][NextCluster]_vars

----
\* The status pollers: PrefectStatusMonitor, SnowflakeStatusMonitor and
\* AzureHealthMonitor build a report of regions, and
\* BaseStatusMonitor.process_all_regions sends it region by region.

\* Largest number of components or events the status API returns.
MaxItems == 2

SeqsUpTo(S, n) == UNION {[1..k -> S] : k \in 0..n}

\* str.lower() on the strings that occur.
Lower(str) ==
    CASE str = "Operational" -> "operational"
      [] str = "CentralUS" -> "centralus"
      [] OTHER -> str

\* dict[k] = v
Put(f, k, v) == [x \in (DOMAIN f) \cup {k} |-> IF x = k THEN v ELSE f[x]]

\* Later that takes every timestamp it is given, greater or not.
Later_Last(last_updated, t) == IF t # NoTime THEN t ELSE last_updated

\* The later of the region's last_updated and a component's timestamp:
\* if t and (not last_updated or t > last_updated): last_updated = t
Later(last_updated, t) ==
    IF t # NoTime /\ (last_updated = NoTime \/ t > last_updated)
    THEN t ELSE last_updated

ServiceNames == {"API", "UI"}
ComponentStatuses == {"operational", "Operational", "major_outage"}

\* Components of the Prefect status API: name, status, updated.
PrefectComponents ==
    [name : ServiceNames, status : ComponentStatuses, updated : 0..2]

\* SnowflakeStatusMonitor.regions_of_interest, in the order of the dict.
Snowflake_regions_of_interest ==
    <<[name |-> "Azure - East US 2 (Virginia)", group_id |-> "4pbr6y23kkht"],
      [name |-> "Azure - Central US (Iowa)", group_id |-> "y7xv3hzhhc80"]>>

\* Components of the Snowflake status API: name, status, updated_at, group_id.
SnowflakeComponents ==
    [name : ServiceNames, status : ComponentStatuses, updated_at : 0..2,
     group_id : {"4pbr6y23kkht", "y7xv3hzhhc80", "other"}]

\* PrefectStatusMonitor.get_component_status: the loop over the components
RECURSIVE Prefect_services(_, _)
Prefect_services(components, n) ==
    IF n = 0 THEN [last_updated |-> NoTime, services |-> <<>>]
    ELSE LET info == Prefect_services(components, n - 1)
             component == components[n]
         IN  [last_updated |-> Later(info.last_updated, component.updated),
              services |->
                  Put(info.services, component.name,
                      [status |-> Lower(component.status),
                       last_updated |-> component.updated])]

\* get_component_status with one operational service being enough.
Prefect_get_component_status_Any(components) ==
    LET info == Prefect_services(components, Len(components))
    IN  [status |-> IF \E x \in DOMAIN info.services :
                          Lower(info.services[x].status) = "operational"
                    THEN "operational" ELSE "degraded",
         last_updated |-> info.last_updated,
         services |-> info.services]

\* PrefectStatusMonitor.get_component_status
Prefect_get_component_status(components) ==
    LET info == Prefect_services(components, Len(components))
    IN  [status |-> IF \A x \in DOMAIN info.services :
                          Lower(info.services[x].status) = "operational"
                    THEN "operational" ELSE "degraded",
         last_updated |-> info.last_updated,
         services |-> info.services]

\* SnowflakeStatusMonitor.get_component_status, after n components
RECURSIVE Snowflake_status_info(_, _, _)
Snowflake_status_info(components, group_id, n) ==
    IF n = 0
    THEN [status |-> "unknown", last_updated |-> NoTime, services |-> <<>>]
    ELSE LET info == Snowflake_status_info(components, group_id, n - 1)
             component == components[n]
             services == Put(info.services, component.name,
                             [status |-> component.status,
                              last_updated |-> component.updated_at])
         IN  IF component.group_id # group_id THEN info
             ELSE [status |-> IF \A x \in DOMAIN services :
                                   services[x].status = "operational"
                              THEN "operational" ELSE "degraded",
                   last_updated |-> Later(info.last_updated, component.updated_at),
                   services |-> services]

\* SnowflakeStatusMonitor.get_component_status
Snowflake_get_component_status(components, group_id) ==
    Snowflake_status_info(components, group_id, Len(components))

\* AzureHealthMonitor.regions_of_interest
Azure_regions_of_interest == <<"eastus2", "centralus">>

\* Locations an event can list, and the event types of the API.
Locations == {"eastus2", "CentralUS", "westus"}
EventTypes ==
    {"Incident", "Maintenance", "HealthAdvisory", "SecurityAdvisory", "Security"}

\* Events of the Azure API: properties.eventType and the locations of
\* properties.impactedRegions.
AzureEvents == [eventType : EventTypes, impactedRegions : SUBSET Locations]

\* word in event_type, for the lower-cased event type
Contains(eventType, word) ==
    CASE word = "advisory" -> eventType \in {"HealthAdvisory", "SecurityAdvisory"}
      [] word = "maintenance" -> eventType = "Maintenance"
      [] word = "incident" -> eventType = "Incident"
      [] word = "security" -> eventType \in {"SecurityAdvisory", "Security"}

Monitored(location) ==
    \E i \in 1..Len(Azure_regions_of_interest) :
        Lower(location) = Azure_regions_of_interest[i]

\* is_event_in_regions that takes an event of any region.
is_event_in_regions_AnyRegion(event) == event.impactedRegions # {}

\* AzureHealthMonitor._is_event_in_regions
is_event_in_regions(event) == \E r \in event.impactedRegions : Monitored(r)

\* AzureHealthMonitor._process_event
process_event(event) ==
    [id |-> event.id,
     event_type |-> event.eventType,
     impacted_regions |-> {r \in event.impactedRegions : Monitored(r)}]

\* The list get_service_health appends the event to.
ListOf(event) ==
    IF Contains(event.eventType, "advisory") THEN "advisories"
    ELSE IF Contains(event.eventType, "maintenance") THEN "maintenance"
    ELSE IF Contains(event.eventType, "incident") THEN "issues"
    ELSE IF Contains(event.eventType, "security") THEN "security"
    ELSE "none"

\* The processed events of one list, in the order of the API.
RECURSIVE HealthList(_, _, _)
HealthList(evs, list, n) ==
    IF n = 0 THEN <<>>
    ELSE IF is_event_in_regions(evs[n]) /\ ListOf(evs[n]) = list
         THEN Append(HealthList(evs, list, n - 1), process_event(evs[n]))
         ELSE HealthList(evs, list, n - 1)

\* AzureHealthMonitor.get_service_health
get_service_health(evs) ==
    [advisories |-> HealthList(evs, "advisories", Len(evs)),
     maintenance |-> HealthList(evs, "maintenance", Len(evs)),
     issues |-> HealthList(evs, "issues", Len(evs)),
     security |-> HealthList(evs, "security", Len(evs))]

\* region in [r["location"].lower() for r in event["impacted_regions"]], for some event
InRegion(region, event_list) ==
    \E i \in 1..Len(event_list) :
        \E r \in event_list[i].impacted_regions : Lower(r) = region

\* The events of the list that list the region.
EventsIn(region, event_list) ==
    SelectSeq(event_list,
              LAMBDA e : \E r \in e.impacted_regions : Lower(r) = region)

\* _get_region_status with maintenance looked at first.
get_region_status_MaintenanceFirst(region, health_data) ==
    LET has_issues == \/ InRegion(region, health_data.issues)
                      \/ InRegion(region, health_data.advisories)
                      \/ InRegion(region, health_data.security)
        has_maintenance == InRegion(region, health_data.maintenance)
    IN  IF has_maintenance THEN "maintenance"
        ELSE IF has_issues THEN "degraded"
        ELSE "operational"

\* AzureHealthMonitor._get_region_status
get_region_status(region, health_data) ==
    LET has_issues == \/ InRegion(region, health_data.issues)
                      \/ InRegion(region, health_data.advisories)
                      \/ InRegion(region, health_data.security)
        has_maintenance == InRegion(region, health_data.maintenance)
    IN  IF has_issues THEN "degraded"
        ELSE IF has_maintenance THEN "maintenance"
        ELSE "operational"

\* status_report["regions"][region] of the Azure report
Azure_region(region, health_data) ==
    [status |-> get_region_status(region, health_data),
     services |->
         [health_advisory |->
              [status |-> IF health_data.advisories # <<>>
                          THEN "degraded" ELSE "operational",
               events |-> EventsIn(region, health_data.advisories)],
          planned_maintenance |->
              [status |-> IF health_data.maintenance # <<>>
                          THEN "maintenance" ELSE "operational",
               events |-> EventsIn(region, health_data.maintenance)],
          service_issues |->
              [status |-> IF health_data.issues # <<>>
                          THEN "degraded" ELSE "operational",
               events |-> EventsIn(region, health_data.issues)],
          security_advisory |->
              [status |-> IF health_data.security # <<>>
                          THEN "degraded" ELSE "operational",
               events |-> EventsIn(region, health_data.security)]]]

\* generate_status_report of the three pollers: the regions of the report, in
\* the order they are put into the dict.
generate_status_report(tech, raw) ==
    CASE tech = "prefect" ->
           <<[name |-> "NA", data |-> Prefect_get_component_status(raw)]>>
      [] tech = "snowflake" ->
           [i \in 1..Len(Snowflake_regions_of_interest) |->
               [name |-> Snowflake_regions_of_interest[i].name,
                data |-> Snowflake_get_component_status(
                             raw, Snowflake_regions_of_interest[i].group_id)]]
      [] tech = "azure" ->
           [i \in 1..Len(Azure_regions_of_interest) |->
               [name |-> Azure_regions_of_interest[i],
                data |-> Azure_region(Azure_regions_of_interest[i],
                                      get_service_health(raw))]]

\* What the status API of the poller can return.
RawInputs(tech) ==
    CASE tech = "prefect" -> SeqsUpTo(PrefectComponents, MaxItems)
      [] tech = "snowflake" -> SeqsUpTo(SnowflakeComponents, MaxItems)
      [] tech = "azure" ->
           {[i \in 1..Len(c) |->
                [id |-> i, eventType |-> c[i].eventType,
                 impactedRegions |-> c[i].impactedRegions]] :
               c \in SeqsUpTo(AzureEvents, MaxItems)}

Technologies == {"prefect", "snowflake", "azure"}

\* No pipeline of the Databricks monitor runs.
NoRun ==
    /\ clock = 0
    /\ store = [k \in Keys |-> <<>>]
    /\ source = [k \in Kinds |-> <<>>]
    /\ pc = "idle"
    /\ monitor_type = "warehouse_events"
    /\ reset_checkpoint = FALSE
    /\ current_time = 0
    /\ last_checkpoint = <<>>
    /\ events = <<>>
    /\ sent = <<>>
    /\ outcome = "none"
    /\ db_log = <<>>
    /\ store0 = store
    /\ store1 = store
    /\ prev = <<>>
    /\ NoMain
    /\ NoTags
    /\ NoCluster
    /\ NoRace

\* A poller is constructed; generate_status_report is called on it.
InitReport ==
    /\ NoRun
    /\ NoHealth
    /\ sink_mocked = FALSE
    /\ status_report = <<>>
    /\ \E tech \in Technologies :
          /\ technology = tech
          /\ raw_data \in RawInputs(tech)
    /\ poll_pc = "start"
    /\ region_sends = <<>>

\* A poller is constructed; process_all_regions is called on it.  The API
\* returns at most one component or event.
InitRegions ==
    /\ NoRun
    /\ NoHealth
    /\ sink_mocked \in BOOLEAN
    /\ status_report = <<>>
    /\ \E tech \in Technologies :
          /\ technology = tech
          /\ raw_data \in {r \in RawInputs(tech) : Len(r) <= 1}
    /\ poll_pc = "start"
    /\ region_sends = <<>>

\* self.status_report = self.generate_status_report(); the fetch may raise
GenerateReport(fails) ==
    /\ poll_pc = "start"
    /\ IF fails
       THEN /\ poll_pc' = "raised"
            /\ UNCHANGED status_report
       ELSE /\ status_report' = <<generate_status_report(technology, raw_data)>>
            /\ poll_pc' = "generated"
    /\ UNCHANGED <<clock, store, source, sink_mocked, pc, monitor_type,
                   reset_checkpoint, current_time, last_checkpoint, events, sent,
                   outcome, db_log, store0, store1, prev, mainVars, tagVars,
                   technology, raw_data, region_sends, clusterVars, raceVars, healthVars>>

\* The loop that ends with the first send that fails.
RegionLoop_StopOnFailure(result, n, total) ==
    IF result # "true" \/ n = total THEN "done" ELSE "generated"

\* Where the loop over the regions goes after the n-th send gave `result`.
RegionLoop(result, n, total) == IF n = total THEN "done" ELSE "generated"

\* What the loop prints after a send.
RegionPrint(result) ==
    CASE result = "false" -> "Failed to process region"
      [] result = "raise" -> "Error processing region"
      [] OTHER -> ""

\* for region_name, region_data in self.status_report["regions"].items():
\*     try: success = self.send_to_splunk(...) except Exception: print
SendRegion(result) ==
    /\ poll_pc = "generated"
    /\ result \in SendResults
    /\ LET regions == status_report[1]
           n == Len(region_sends) + 1
       IN  /\ region_sends' = Append(region_sends,
                                     [region |-> regions[n].name,
                                      result |-> result,
                                      printed |-> RegionPrint(result)])
           /\ poll_pc' = RegionLoop(result, n, Len(regions))
    /\ UNCHANGED <<clock, store, source, sink_mocked, status_report, pc, monitor_type,
                   reset_checkpoint, current_time, last_checkpoint, events, sent,
                   outcome, db_log, store0, store1, prev, mainVars, tagVars,
                   technology, raw_data, clusterVars, raceVars, healthVars>>

NextReport == \E fails \in BOOLEAN : GenerateReport(fails)

SpecReport == InitReport /\ [][NextReport]_vars

NextRegions ==
    \/ \E fails \in BOOLEAN : GenerateReport(fails)
    \/ \E result \in {"true", "false", "raise"} : SendRegion(result)

SpecRegions == InitRegions /\ [][NextRegions]_vars

----
\* main() of a poller: monitor = ...StatusMonitor(); try:
\* monitor.process_all_regions() except Exception as e: print(f"Error: ...")

\* An except clause that lets the exception go on out of main().
PollerMainExcept_Reraise ==
    /\ poll_pc = "raised"
    /\ poll_pc' = "main_raised"
    /\ UNCHANGED <<clock, store, source, sink_mocked, status_report, pc, monitor_type,
                   reset_checkpoint, current_time, last_checkpoint, events, sent,
                   outcome, db_log, store0, store1, prev, mainVars, tagVars,
                   technology, raw_data, region_sends, clusterVars, raceVars, healthVars>>

\* except Exception as e: print(f"Error: {str(e)}"), and main() returns
PollerMainExcept ==
    /\ poll_pc = "raised"
    /\ calls' = Append(calls, "print_error")
    /\ poll_pc' = "returned"
    /\ UNCHANGED <<clock, store, source, sink_mocked, status_report, pc, monitor_type,
                   reset_checkpoint, current_time, last_checkpoint, events, sent,
                   outcome, db_log, store0, store1, prev, main_pc, environ, argv,
                   monitor, table_exists, tagVars, technology, raw_data,
                   region_sends, clusterVars, raceVars, healthVars>>

\* process_all_regions returned: main() returns
PollerMainReturn ==
    /\ poll_pc = "done"
    /\ poll_pc' = "returned"
    /\ UNCHANGED <<clock, store, source, sink_mocked, status_report, pc, monitor_type,
                   reset_checkpoint, current_time, last_checkpoint, events, sent,
                   outcome, db_log, store0, store1, prev, mainVars, tagVars,
                   technology, raw_data, region_sends, clusterVars, raceVars, healthVars>>

NextPollerMain ==
    \/ \E fails \in BOOLEAN : GenerateReport(fails)
    \/ \E result \in {"true", "false", "raise"} : SendRegion(result)
    \/ PollerMainExcept
    \/ PollerMainReturn

SpecPollerMain == InitRegions /\ [][NextPollerMain]_vars

----
\* The incidents of the Snowflake report.

\* Largest number of incidents the API returns, and of components of one.
MaxIncidents == 2
MaxComponents == 2

GroupIds == {"4pbr6y23kkht", "y7xv3hzhhc80", "other"}

\* raw_data["incidents"]: every incident has its id and the group_id of each
\* of its components; a missing "components" is the empty list.
RawIncidents ==
    {[i \in 1..Len(c) |-> [id |-> i, components |-> c[i]]] :
        c \in SeqsUpTo(SeqsUpTo(GroupIds, MaxComponents), MaxIncidents)}

\* affects_region that looks at the first component only.
affects_region_First(incident, group_id) ==
    /\ incident.components # <<>>
    /\ incident.components[1] = group_id

\* for component in incident.get("components", []):
\*     if component.get("group_id") == group_id: affects_region = True; break
affects_region(incident, group_id) ==
    \E j \in 1..Len(incident.components) : incident.components[j] = group_id

\* SnowflakeStatusMonitor.get_region_incidents, after n incidents
RECURSIVE region_incidents(_, _, _)
region_incidents(incidents, group_id, n) ==
    IF n = 0 THEN <<>>
    ELSE IF affects_region(incidents[n], group_id)
         THEN Append(region_incidents(incidents, group_id, n - 1),
                     [id |-> incidents[n].id])
         ELSE region_incidents(incidents, group_id, n - 1)

\* SnowflakeStatusMonitor.get_region_incidents
get_region_incidents(incidents, group_id) ==
    region_incidents(incidents, group_id, Len(incidents))

\* status_report["incidents"] after the loop over regions_of_interest:
\* if incidents: status_report["incidents"][region_name] = incidents
RECURSIVE Snowflake_incidents(_, _)
Snowflake_incidents(incidents, n) ==
    IF n = 0 THEN <<>>
    ELSE LET region == Snowflake_regions_of_interest[n]
             found == get_region_incidents(incidents, region.group_id)
             before == Snowflake_incidents(incidents, n - 1)
         IN  IF found # <<>> THEN Put(before, region.name, found) ELSE before

\* The Snowflake poller is constructed; the API returns incidents.
InitIncidents ==
    /\ NoRun
    /\ sink_mocked = FALSE
    /\ status_report = <<>>
    /\ technology = "snowflake"
    /\ raw_data = <<>>
    /\ poll_pc = "start"
    /\ region_sends = <<>>
    /\ raw_incidents \in RawIncidents
    /\ report_incidents = <<>>
    /\ service_health = <<>>
    /\ impacted_resources = <<>>
    /\ folded = <<>>

\* generate_status_report of the Snowflake poller: the regions and the incidents
GenerateIncidents ==
    /\ poll_pc = "start"
    /\ status_report' = <<generate_status_report(technology, raw_data)>>
    /\ report_incidents' =
          <<Snowflake_incidents(raw_incidents, Len(Snowflake_regions_of_interest))>>
    /\ poll_pc' = "generated"
    /\ UNCHANGED <<clock, store, source, sink_mocked, pc, monitor_type,
                   reset_checkpoint, current_time, last_checkpoint, events, sent,
                   outcome, db_log, store0, store1, prev, mainVars, tagVars,
                   technology, raw_data, region_sends, clusterVars, raceVars,
                   raw_incidents, service_health, impacted_resources, folded>>

NextIncidents == GenerateIncidents

SpecIncidents == InitIncidents /\ [][NextIncidents]_vars

----
\* The impacted resources of the Azure health events.

Elems(l) == {l[i] : i \in 1..Len(l)}

\* properties.impactedRegions of an event as the API lists it: the locations,
\* in order; a location can occur twice.
RegionLists ==
    SeqsUpTo(Locations, 1)
        \cup {<<"eastus2", "eastus2">>, <<"eastus2", "CentralUS">>, <<"westus", "eastus2">>}

\* properties.impactedServices of an event: the resourceId of each entry, ""
\* for an entry without one.
ResourceIds == {"r1", "r2", ""}
ServiceLists == SeqsUpTo(ResourceIds, 1) \cup {<<"r1", "r1">>, <<"r1", "r2">>}

\* The event as the operators of the four lists take it.
AsAzureEvent(event) ==
    [id |-> event.id, eventType |-> event.eventType,
     impactedRegions |-> Elems(event.impactedRegions)]

\* add_region that appends the region also when the list holds it.
add_region_Again(regions_affected, location) ==
    IF Monitored(location) THEN Append(regions_affected, Lower(location))
    ELSE regions_affected

\* region_name = region.get("location", "").lower()
\* if region_name in self.regions_of_interest and region_name not in
\*     impacted_resources[resource_id]["regions_affected"]: append
add_region(regions_affected, location) ==
    IF Monitored(location) /\ Lower(location) \notin Elems(regions_affected)
    THEN Append(regions_affected, Lower(location))
    ELSE regions_affected

\* for region in props.get("impactedRegions", []): the first n regions
RECURSIVE add_regions(_, _, _)
add_regions(regions_affected, locations, n) ==
    IF n = 0 THEN regions_affected
    ELSE add_region(add_regions(regions_affected, locations, n - 1), locations[n])

\* The body of the loop over impactedServices, for one resource.
process_resource(event, resource_id, resources) ==
    IF resource_id = "" THEN resources
    ELSE LET entry == IF resource_id \in DOMAIN resources
                      THEN resources[resource_id]
                      ELSE [regions_affected |-> <<>>, events |-> <<>>]
         IN  Put(resources, resource_id,
                 [regions_affected |->
                      add_regions(entry.regions_affected, event.impactedRegions,
                                  Len(event.impactedRegions)),
                  events |->
                      Append(entry.events,
                             [event_id |-> event.id, type |-> event.eventType])])

\* for resource in props.get("impactedServices", []): the first n resources
RECURSIVE process_resources(_, _, _)
process_resources(event, resources, n) ==
    IF n = 0 THEN resources
    ELSE process_resource(event, event.impactedServices[n],
                          process_resources(event, resources, n - 1))

\* AzureHealthMonitor._process_impacted_resources: the dict after the call
process_impacted_resources(event, resources) ==
    process_resources(event, resources, Len(event.impactedServices))

\* health_data["impacted_resources"] after the first n events of the API
RECURSIVE health_resources(_, _)
health_resources(evs, n) ==
    IF n = 0 THEN <<>>
    ELSE IF is_event_in_regions(AsAzureEvent(evs[n]))
         THEN process_impacted_resources(evs[n], health_resources(evs, n - 1))
         ELSE health_resources(evs, n - 1)

\* What the Azure API returns to get_service_health.
HealthEvents ==
    [eventType : EventTypes,
     impactedRegions : {<<>>, <<"westus">>, <<"eastus2">>, <<"CentralUS", "westus">>},
     impactedServices : {<<>>, <<"r1">>}]

HealthInputs ==
    {[i \in 1..Len(c) |->
         [id |-> i, eventType |-> c[i].eventType,
          impactedRegions |-> c[i].impactedRegions,
          impactedServices |-> c[i].impactedServices]] :
        c \in SeqsUpTo(HealthEvents, MaxItems)}

\* The Azure poller is constructed; nothing is fetched or folded yet.
InitAzure ==
    /\ NoRun
    /\ sink_mocked = FALSE
    /\ status_report = <<>>
    /\ technology = "azure"
    /\ poll_pc = "start"
    /\ region_sends = <<>>
    /\ raw_incidents = <<>>
    /\ report_incidents = <<>>
    /\ service_health = <<>>
    /\ impacted_resources = <<>>
    /\ folded = <<>>

InitHealth == InitAzure /\ raw_data \in HealthInputs

\* health_data = self.get_service_health(): the four lists and the impacted
\* resources of the events the API returned
GetServiceHealth ==
    /\ service_health = <<>>
    /\ LET plain == [i \in 1..Len(raw_data) |-> AsAzureEvent(raw_data[i])]
           lists == get_service_health(plain)
       IN  service_health' =
               <<[advisories |-> lists.advisories,
                  maintenance |-> lists.maintenance,
                  issues |-> lists.issues,
                  security |-> lists.security,
                  impacted_resources |-> health_resources(raw_data, Len(raw_data))]>>
    /\ UNCHANGED <<clock, store, source, sink_mocked, status_report, pc, monitor_type,
                   reset_checkpoint, current_time, last_checkpoint, events, sent,
                   outcome, db_log, store0, store1, prev, mainVars, tagVars,
                   pollVars, clusterVars, raceVars, raw_incidents, report_incidents,
                   impacted_resources, folded>>

NextHealth == GetServiceHealth

SpecHealth == InitHealth /\ [][NextHealth]_vars

\* The events _process_impacted_resources is called with, one call after the
\* other on one dict.
InitFold == InitAzure /\ raw_data = <<>>

\* self._process_impacted_resources(event, impacted_resources)
FoldEvent(impactedRegions, impactedServices) ==
    /\ Len(folded) < MaxItems
    /\ LET event == [id |-> Len(folded) + 1, eventType |-> "Incident",
                     impactedRegions |-> impactedRegions,
                     impactedServices |-> impactedServices]
       IN  /\ impacted_resources' = process_impacted_resources(event, impacted_resources)
           /\ folded' = Append(folded, event)
    /\ UNCHANGED <<clock, store, source, sink_mocked, status_report, pc, monitor_type,
                   reset_checkpoint, current_time, last_checkpoint, events, sent,
                   outcome, db_log, store0, store1, prev, mainVars, tagVars,
                   pollVars, clusterVars, raceVars, raw_incidents, report_incidents,
                   service_health>>

NextFold ==
    \E impactedRegions \in RegionLists, impactedServices \in ServiceLists :
        FoldEvent(impactedRegions, impactedServices)

SpecFold == InitFold /\ [][NextFold]_vars

----
\* Notions the properties below are stated with.

key == Key(monitor_type)

\* Positions of the rows of table tbl whose extraction time t has lo < t <= hi.
Window(tbl, lo, hi) == {i \in 1..Len(tbl) : lo < tbl[i] /\ tbl[i] <= hi}

Range(s) == {s[i] : i \in 1..Len(s)}

\* Rows for which send_to_splunk returned true.
Accepted(s) == {s[i][1] : i \in {j \in 1..Len(s) : s[j][2] = "true"}}

\* A delivery of the run returned false.
SomeFalse == \E i \in 1..Len(sent) : sent[i][2] = "false"

\* The run has returned after a delivery that returned false.
Rejected == pc = "done" /\ outcome = "rejected"

----
\* C1 (as stated): whatever the reset flag, when a delivery returns false the
\* rows stored for the pipeline's key after the run are those stored before
\* the run started.
C1_WatermarkAsBeforeRun == SomeFalse => store[key] = store0[key]

\* C1 (amended): when the N-th delivery returns false, the checkpoint table
\* after the run is the table as the run's reset or checkpoint read left it
\* (nothing is written after the query); with reset=false the stored watermark
\* is the value the read returned, and it is the watermark stored before the
\* run when a row for the key existed.
C1_NoCommitOnRejection ==
    SomeFalse =>
        /\ pc = "done"
        /\ store = store1
        /\ ~reset_checkpoint =>
              /\ store[key] = last_checkpoint
              /\ store0[key] # <<>> => store[key] = store0[key]

\* A run over three rows whose N-th delivery was rejected, for N = 2, on a key
\* that had a row before the run.
C1_Witness ==
    /\ Rejected
    /\ Len(events) = 3
    /\ Len(sent) = 2
    /\ ~reset_checkpoint
    /\ store0[key] # <<>>

\* C2: the deliveries of a run are a prefix of the batch, the batch is in
\* ascending extraction-time order, one send_to_splunk call per row; every
\* delivery but the last returned true, and a run whose last delivery returned
\* false has ended, normally, with exactly that many deliveries.
C2_FailFastPrefix ==
    /\ Len(sent) <= Len(events)
    /\ \A i \in 1..Len(sent) : sent[i][1] = events[i]
    /\ \A i \in 1..Len(events), j \in 1..Len(events) :
          i < j => /\ events[i] # events[j]
                   /\ source[monitor_type][events[i]] <= source[monitor_type][events[j]]
    /\ \A i \in 1..(Len(sent) - 1) : sent[i][2] = "true"
    /\ (sent # <<>> /\ sent[Len(sent)][2] = "false") => Rejected
    /\ Rejected => (sent # <<>> /\ sent[Len(sent)][2] = "false")

\* The second of three deliveries returned false: two deliveries were attempted.
C2_Witness ==
    /\ Rejected
    /\ Len(events) = 3
    /\ Len(sent) = 2
    /\ sent[1][2] = "true"
    /\ reset_checkpoint

\* Two consecutive runs of one pipeline, both with reset=false, that both
\* returned without raising, the second with every delivery accepted.
TwoRuns ==
    /\ prev # <<>>
    /\ pc = "done"
    /\ ~reset_checkpoint
    /\ ~prev[1].reset_checkpoint
    /\ prev[1].outcome \in {"empty", "rejected", "committed"}
    /\ outcome \in {"empty", "committed"}

\* The first run, too, returned with every delivery accepted and its commit
\* written.
BothAccepted == prev[1].outcome \in {"empty", "committed"}

\* The rows the two runs delivered are the source rows with extraction time in
\* (the first run's checkpoint, the second run's now], none of them twice.
NoGapNoDuplicate ==
    /\ Accepted(prev[1].sent) \cup Accepted(sent) =
          Window(source[monitor_type], prev[1].last_checkpoint[1], current_time)
    /\ Accepted(prev[1].sent) \cap Accepted(sent) = {}

\* C3 (as stated): for any two consecutive runs with reset=false, here even
\* only those that return without raising.
C3_AnyTwoRuns == TwoRuns => NoGapNoDuplicate

\* C3 (amended): for two consecutive runs of one pipeline with reset=false
\* that both return with every delivery accepted (the first having written its
\* commit), the rows delivered across both are exactly the source rows with
\* extraction time in (initial checkpoint, now of the second run], none twice.
C3_NoGapNoDuplicate == (TwoRuns /\ BothAccepted) => NoGapNoDuplicate

\* Both runs delivered rows; a row lies on the first run's now, which is also
\* the watermark the first run committed.
C3_Witness ==
    /\ TwoRuns
    /\ BothAccepted
    /\ prev[1].sent # <<>>
    /\ sent # <<>>
    /\ \E i \in Accepted(prev[1].sent) :
          source[monitor_type][i] = prev[1].current_time

\* The batch has been fetched.
Fetched == pc \in {"deliver", "commit"} \/ outcome \in {"empty", "rejected", "committed"}
           \/ (outcome = "raised" /\ sent # <<>>)

\* C4: the batch of a run is exactly the set of source rows with
\* watermark < t <= now, now being current_time and the watermark the value the
\* checkpoint read returned and left stored (or the reset value).
C4_HalfOpenWindow ==
    Fetched =>
        /\ Range(events) =
              Window(source[monitor_type], last_checkpoint[1], current_time)
        /\ Len(events) = Cardinality(Range(events))
        /\ reset_checkpoint => last_checkpoint[1] = current_time - Day
        /\ ~reset_checkpoint => store1[key] = last_checkpoint

\* A batch that leaves out a row at the watermark and holds a row at now.
C4_Witness ==
    /\ Fetched
    /\ \E i \in 1..Len(source[monitor_type]) :
          source[monitor_type][i] = last_checkpoint[1]
    /\ \E i \in Range(events) : source[monitor_type][i] = current_time

\* The run wrote its commit: every delivery of a non-empty batch returned true
\* and the update_checkpoint call after the loop returned.
Committed == pc = "done" /\ outcome = "committed"

\* C5: when every delivery of a non-empty batch returns true, the stored
\* watermark for the pipeline's key after the run is the maximum extraction
\* time of the batch.
C5_CommitIsBatchMaximum ==
    Committed => store[key] = <<MaxTimeOf(source[monitor_type], events)>>

\* C6: after a run that completes successfully (empty batch, or all delivered
\* and committed), the stored watermark is not below the one stored before the
\* run.
C6_Monotone ==
    (pc = "done" /\ outcome \in {"empty", "committed"} /\ store0[key] # <<>>) =>
        /\ store[key] # <<>>
        /\ store[key][1] >= store0[key][1]

\* A reset run that succeeded on a key whose stored watermark was later than
\* the run's now - 24h.
C6_Witness ==
    /\ Committed
    /\ reset_checkpoint
    /\ store0[key] # <<>>
    /\ store0[key][1] > current_time - Day
    /\ store[key][1] > store0[key][1]

\* C7: a reset=false run whose query returns no row attempts no delivery,
\* issues no checkpoint write after the query and leaves stored the value the
\* checkpoint read returned.
C7_EmptyBatch ==
    (pc = "done" /\ ~reset_checkpoint /\ Fetched /\ events = <<>>) =>
        /\ outcome = "empty"
        /\ sent = <<>>
        /\ db_log[Len(db_log)] = "query"
        /\ \A i \in 1..Len(db_log) : db_log[i] # "update"
        /\ store[key] = last_checkpoint
        /\ store = store1

\* An empty batch on a key that had no row before the run, with rows in the
\* table outside the window.
C7_Witness ==
    /\ pc = "done"
    /\ outcome = "empty"
    /\ ~reset_checkpoint
    /\ store0[key] = <<>>
    /\ source[monitor_type] # <<>>

\* get_last_checkpoint has just returned to the run.
AfterRead == pc = "query" /\ ~reset_checkpoint

\* C8: get_last_checkpoint returns the stored watermark and leaves the table
\* as it was when a row for the key exists; else it inserts one row holding
\* (time of the call - 24h) and returns that value.  A get_last_checkpoint
\* that follows returns the same value and changes nothing.
C8_ReadWithDefault ==
    AfterRead =>
        /\ IF store0[key] # <<>>
           THEN /\ last_checkpoint = <<store0[key][1]>>
                /\ store = store0
           ELSE /\ last_checkpoint = <<clock - Day>>
                /\ store[key] = last_checkpoint
                /\ \A k \in Keys \ {key} : store[k] = store0[k]
        /\ \A now \in clock..MaxTime :
              get_last_checkpoint(store, monitor_type, now) = <<last_checkpoint[1], store>>

\* The read found no row and inserted a default that is not a whole second.
C8_Witness ==
    /\ AfterRead
    /\ store0[key] = <<>>
    /\ last_checkpoint[1] % Sub # 0

\* update_checkpoint(monitor_type, table_name, ts) has just returned, from the
\* reset of a run or from its commit.
AfterUpdate == (pc = "query" /\ reset_checkpoint) \/ Committed
UpdatedTo == IF pc = "query" THEN current_time - Day
             ELSE MaxTimeOf(source[monitor_type], events)

\* C9: after update_checkpoint returns the table holds ts for the key and a
\* get_last_checkpoint that follows returns ts, whether or not a row for the
\* key existed.
C9_UpdateIsUpsert ==
    AfterUpdate =>
        /\ store[key] = <<UpdatedTo>>
        /\ get_last_checkpoint(store, monitor_type, clock) = <<UpdatedTo, store>>

\* C10: in a reset run, between the reset and the source query, the table
\* holds exactly (current_time - 24h) for the pipeline's key, whatever it held
\* before, also when it held no row.
C10_ResetForcesWatermark ==
    (pc = "query" /\ reset_checkpoint) => store[key] = <<current_time - Day>>

\* C11: in a reset run the lower bound of the query is the upper bound less
\* 24h, both from the one current_time of the run, whatever the table held;
\* the run never reads the stored watermark.
C11_ResetLowerBound ==
    reset_checkpoint =>
        /\ \A i \in 1..Len(db_log) : db_log[i] \notin {"select", "insert"}
        /\ pc \notin {"idle", "checkpoint"} => last_checkpoint = <<current_time - Day>>
        /\ Fetched =>
              Range(events) =
                  Window(source[monitor_type], current_time - Day, current_time)

\* A reset run that fetched a batch although a later watermark was stored.
C11_Witness ==
    /\ reset_checkpoint
    /\ Fetched
    /\ events # <<>>
    /\ store0[key] # <<>>
    /\ store0[key][1] > current_time - Day

\* The run raised out of a statement on the connection (not out of the sink).
DbRaised ==
    /\ pc = "done"
    /\ outcome = "raised"
    /\ sent = <<>> \/ sent[Len(sent)][2] # "raise"

\* C17 (as stated): when the checkpoint read, the checkpoint write or the
\* source query raises, the stored watermark for the key is as before the run.
C17_WatermarkAsBeforeRun == DbRaised => store[key] = store0[key]

\* C17 (amended): when the checkpoint read, a checkpoint write or the source
\* query raises, the exception leaves the method, no delivery follows it, and
\* the table is as the last statement that succeeded left it: as before the
\* run when the reset or the read raised, as the reset or read left it when
\* the query or the commit raised.  With reset=false and a row for the key
\* stored before the run, the stored watermark is as before the run.
C17_StoreErrorLeavesStore ==
    DbRaised =>
        /\ store = store1
        /\ Len(db_log) = 1 => (store = store0 /\ sent = <<>>)
        /\ db_log[Len(db_log)] = "query" => sent = <<>>
        /\ (~reset_checkpoint /\ store0[key] # <<>>) => store[key] = store0[key]
        /\ \A i \in 1..Len(sent) : sent[i][2] = "true"

\* The commit write raised after three deliveries.
C17_Witness ==
    /\ DbRaised
    /\ Len(sent) = 3
    /\ db_log[Len(db_log)] = "update"
    /\ ~reset_checkpoint

\* C12: whatever sequence of ensure_checkpoint_table, get_last_checkpoint,
\* update_checkpoint and pipeline runs one monitor executes, the checkpoint
\* table holds at most one row for each (monitor_type, table_name).
C12_KeyUnique == \A k \in DOMAIN store : Len(store[k]) <= 1

\* Both keys hold a row, and a run that found its row stored has committed.
C12_Witness ==
    /\ table_exists
    /\ \A k \in Kinds : Len(store[Key(k)]) = 1
    /\ pc = "done"
    /\ outcome = "committed"
    /\ ~reset_checkpoint
    /\ store0[key] # <<>>

\* The order of the six pipelines that C13 and C15 speak of.
SixInOrder ==
    <<"warehouse_events", "job_events", "job_task_events", "query_events",
      "cluster_events", "audit_events">>

PrintedError == \E i \in 1..Len(calls) : calls[i] = "print_error"
Closes == Cardinality({i \in 1..Len(calls) : calls[i] = "close"})

\* C13 (as stated): when a pipeline raises, main() logs it and still runs the
\* pipelines after it: a main() that got as far as the first pipeline has
\* called all six when it returns.
C13_FollowingPipelinesRun ==
    (main_pc = "returned" /\ Called # <<>>) => Called = SixInOrder

\* C14: once the monitor is constructed, main() closes the connection exactly
\* once on every way out, and only after the last pipeline call: nothing is
\* closed while main() runs, and when main() has ended the one close is the
\* last thing it did.
C14_ClosedOnceAtEnd ==
    monitor # "unbound" =>
        /\ ~MainEnded => (Closes = 0 /\ monitor = "open")
        /\ MainEnded =>
              /\ main_pc = "returned"
              /\ monitor = "closed"
              /\ Closes = 1
              /\ calls[Len(calls)] = "close"
              /\ pc \in {"idle", "done"}

\* main() returned through the except clause after the second pipeline raised.
C14_Witness ==
    /\ main_pc = "returned"
    /\ PrintedError
    /\ Len(Called) = 2
    /\ monitor = "closed"

\* C15: when nothing raises, main() calls ensure_checkpoint_table once and
\* then each of the six pipelines once, in the order warehouse, job, job-task,
\* query, cluster, audit.
C15_Order ==
    /\ \A i \in 1..Len(Called) : i <= 6 /\ Called[i] = SixInOrder[i]
    /\ Called # <<>> => calls[1] = "ensure_checkpoint_table"
    /\ Cardinality({i \in 1..Len(calls) : calls[i] = "ensure_checkpoint_table"}) <= 1
    /\ (main_pc = "returned" /\ ~PrintedError) =>
           calls = <<"ensure_checkpoint_table">> \o SixInOrder \o <<"close">>

\* main() returned and nothing was raised, with rows delivered on the way.
C15_Witness ==
    /\ main_pc = "returned"
    /\ ~PrintedError
    /\ Len(Called) = 6
    /\ \E k \in AllKinds : source[k] # <<>>

\* C16 (as stated): every pipeline main() runs has reset=true exactly when
\* --reset is on the command line.
C16_ResetFromCaller ==
    (main_pc = "pipelines" /\ pc # "idle") =>
        (reset_checkpoint <=> \E i \in 1..Len(argv) : argv[i] = "--reset")

\* C18: when one of DATABRICKS_HOST, DATABRICKS_HTTP_PATH, DATABRICKS_TOKEN is
\* not set, get_env_var raises ValueError and main() ends with it: no monitor
\* is constructed, the checkpoint table is not touched and no pipeline runs.
C18_MissingVarIsFatal ==
    environ # {EnvVars[i] : i \in 1..3} =>
        /\ main_pc \in {"env", "ValueError"}
        /\ monitor = "unbound"
        /\ calls = <<>>
        /\ ~table_exists
        /\ pc = "idle"
        /\ \A k \in DOMAIN store : store[k] = <<>>

\* main() has ended with the ValueError for a missing DATABRICKS_TOKEN.
C18_Witness ==
    /\ main_pc = "ValueError"
    /\ environ = {"DATABRICKS_HOST", "DATABRICKS_HTTP_PATH"}

\* C19 (as stated): with the three variables set, no exception leaves main(),
\* whatever the constructor, ensure_checkpoint_table or a pipeline raised.
C19_MainNeverRaises ==
    environ = {EnvVars[i] : i \in 1..3} =>
        main_pc \notin {"ValueError", "UnboundLocalError"}

\* The list elements of the value all have a length.
Sized(v) == v.type = "list" => \A i \in 1..Len(v.items) : v.items[i].type = "tuple"

\* C20: _convert_tags_to_dict applied to its own result gives that result
\* again, for None, an empty or non-empty mapping and a sequence of pairs;
\* None and empty inputs give the empty mapping, and a mapping is returned
\* unchanged.
C20_Idempotent ==
    /\ (tag_calls >= 1 /\ Sized(tags)) =>
          /\ tag_dict.type = "dict"
          /\ ~Truthy(tags) => PyEq(tag_dict, EmptyDict)
          /\ tags.type = "dict" => PyEq(tag_dict, tags)
    /\ tag_calls = 2 => PyEq(tag_dict, convert_tags_to_dict(tags))

\* A list of two pairs with different keys, normalized twice.
C20_Witness ==
    /\ tag_calls = 2
    /\ tags.type = "list"
    /\ Len(tags.items) = 2
    /\ DOMAIN tag_dict.items = TagStrings

\* The tuples of list l that have exactly two elements.
PairsOf(l) == {l[i].items : i \in {j \in 1..Len(l) : Len(l[j].items) = 2}}

\* C21 (as stated): for any sequence the call returns a mapping and never
\* raises; the mapping has the first elements of the 2-element pairs as keys,
\* each with the second element of a pair with that key, and every other
\* element of the sequence is dropped.
C21_SequenceGivesMapping ==
    (tag_calls = 1 /\ tags.type = "list") =>
        /\ tag_dict.type = "dict"
        /\ DOMAIN tag_dict.items = {t[1] : t \in PairsOf(tags.items)}
        /\ \A x \in DOMAIN tag_dict.items :
              <<x, tag_dict.items[x]>> \in PairsOf(tags.items)

Regions == status_report[1]

\* Every entry of the services map has status "operational".
AllOperational(data) ==
    \A x \in DOMAIN data.services : data.services[x].status = "operational"

C24_NoComponentsUnknown ==
    poll_pc = "generated" =>
        /\ (technology = "prefect" /\ raw_data = <<>>) =>
              /\ Regions[1].data.status = "unknown"
              /\ Regions[1].data.last_updated = NoTime
              /\ DOMAIN Regions[1].data.services = {}
        /\ technology = "snowflake" =>
              \A i \in 1..Len(Regions) :
                  (\A j \in 1..Len(raw_data) :
                       raw_data[j].group_id # Snowflake_regions_of_interest[i].group_id)
                  => /\ Regions[i].data.status = "unknown"
                     /\ Regions[i].data.last_updated = NoTime
                     /\ DOMAIN Regions[i].data.services = {}

\* An event of the list lists the region (in any case of the letters).
ListsRegion(event_list, region) ==
    \E i \in 1..Len(event_list) :
        \E r \in event_list[i].impacted_regions : Lower(r) = region

\* C25: the status of an Azure region is "degraded" when an issue, an advisory
\* or a security event lists the region, else "maintenance" when a maintenance
\* event lists it, else "operational"; events that do not list the region do
\* not count.
C25_AzurePrecedence ==
    (poll_pc = "generated" /\ technology = "azure") =>
        LET health_data == get_service_health(raw_data)
        IN  \A i \in 1..Len(Regions) :
                Regions[i].data.status =
                    IF \/ ListsRegion(health_data.issues, Regions[i].name)
                       \/ ListsRegion(health_data.advisories, Regions[i].name)
                       \/ ListsRegion(health_data.security, Regions[i].name)
                    THEN "degraded"
                    ELSE IF ListsRegion(health_data.maintenance, Regions[i].name)
                         THEN "maintenance"
                         ELSE "operational"

\* eastus2 has an incident and a maintenance event and is degraded; centralus
\* is listed by neither and is operational.
C25_Witness ==
    /\ poll_pc = "generated"
    /\ technology = "azure"
    /\ Len(raw_data) = 2
    /\ raw_data[1].eventType = "Incident"
    /\ raw_data[1].impactedRegions = {"eastus2"}
    /\ raw_data[2].eventType = "Maintenance"
    /\ raw_data[2].impactedRegions = {"eastus2", "westus"}
    /\ Regions[1].data.status = "degraded"
    /\ Regions[2].data.status = "operational"

----
\* Rerun as recovery.

\* The run before this one had reset=false and returned at a delivery that
\* send_to_splunk answered with False; this run has reset=false and has queried.
RerunAfterRejection ==
    /\ prev # <<>>
    /\ ~prev[1].reset_checkpoint
    /\ prev[1].outcome = "rejected"
    /\ ~reset_checkpoint
    /\ Fetched

\* C28: after a reset=false run that was aborted by a delivery returning false,
\* the next reset=false run of the same pipeline queries with the same lower
\* bound as the aborted run, and every row of the aborted batch is in the batch
\* it queries.
C28_RerunQueriesAgain ==
    RerunAfterRejection =>
        /\ monitor_type = prev[1].monitor_type
        /\ last_checkpoint = prev[1].last_checkpoint
        /\ Range(prev[1].events) \subseteq Range(events)

\* The aborted run left rows of its batch undelivered, and the run after it has
\* queried them again.
C28_Witness ==
    /\ RerunAfterRejection
    /\ Len(prev[1].sent) < Len(prev[1].events)
    /\ Range(prev[1].events) \ Accepted(prev[1].sent) # {}
    /\ Range(prev[1].events) \subseteq Range(events)

----
\* Checkpoint ownership.

\* The keys of the five pipelines other than the one that runs.
OtherKeys == AllKeys \ {Key(monitor_type)}

\* C29: from its first statement to its end, whatever its outcome and its reset
\* flag, a run of one pipeline leaves the checkpoint rows of the five other
\* pipeline keys as they were when it started.
C29_OtherKeysUnchanged ==
    pc # "idle" => \A other \in OtherKeys : store[other] = store0[other]

\* Runs that have ended while the other keys held rows: a run that committed,
\* a reset run that wrote the row of its own key, a run that a delivery
\* rejected, a run that raised.
C29_Witness ==
    /\ pc = "done"
    /\ Cardinality(OtherKeys) = 5
    /\ \A other \in OtherKeys : store0[other] # <<>>
    /\ store[Key(monitor_type)] # store0[Key(monitor_type)]
    /\ \/ outcome = "committed" /\ ~reset_checkpoint
       \/ outcome = "empty" /\ reset_checkpoint

----
\* Checkpoint rows stay.

\* C30: once a row for a key is in the checkpoint table, no step of
\* ensure_checkpoint_table, get_last_checkpoint, update_checkpoint or of a run
\* with or without reset leaves the table without a row for that key.
C30_NeverDeleted ==
    [][\A k \in DOMAIN store : store[k] # <<>> => store'[k] # <<>>]_vars

\* A reset run and a run that committed have each overwritten a row that was
\* stored before: the row is there, with another time.
C30_Witness ==
    /\ pc = "done"
    /\ store0[key] # <<>>
    /\ store[key] # <<>>
    /\ store[key] # store0[key]
    /\ outcome \in {"committed", "empty"}

----
\* At-least-once delivery.

\* Row i of the pipeline's source table is later than the stored watermark and
\* not later than now.
Pending(i) ==
    /\ i <= Len(source[monitor_type])
    /\ store[key] # <<>>
    /\ store[key][1] < source[monitor_type][i]
    /\ source[monitor_type][i] <= clock

\* The extraction times of the rows that are not later than now.
DueTimes == {source[monitor_type][i] :
                i \in {j \in 1..Len(source[monitor_type]) : source[monitor_type][j] <= clock}}

\* The watermarks a table can hold before the first commit: the row stored at
\* the start, or the default the first checkpoint read inserts.
FirstWatermarks == {0} \cup {c - Day : c \in 0..MaxTime}

\* A watermark is stored, no row is later than it and due, and it is the time
\* of a due row unless it is still the first watermark.
Settled ==
    /\ store[key] # <<>>
    /\ \A i \in 1..LiveRows : ~Pending(i)
    /\ store[key][1] \in DueTimes \cup FirstWatermarks

----
\* A delivery that raises.

\* send_to_splunk raised at a delivery of the run.
SomeRaise == \E i \in 1..Len(sent) : sent[i][2] = "raise"

\* C32: when send_to_splunk raises on the N-th row of a batch, the exception
\* leaves the pipeline method (the run has ended as raised), the N-th delivery
\* is the last one, and no statement follows the query: the table is as the
\* run's reset or checkpoint read left it, the commit is not written.
C32_RaisePropagates ==
    SomeRaise =>
        /\ pc = "done"
        /\ outcome = "raised"
        /\ sent[Len(sent)][2] = "raise"
        /\ \A i \in 1..(Len(sent) - 1) : sent[i][2] = "true"
        /\ db_log[Len(db_log)] = "query"
        /\ store = store1

\* The stub raised on the second of three rows, on a key that had a row before
\* the run; the row after it was not delivered.
C32_Witness ==
    /\ SomeRaise
    /\ sink_mocked
    /\ Len(events) = 3
    /\ Len(sent) = 2
    /\ store0[key] # <<>>
    /\ max_event_time > store[key][1]

----
\* Delivery with the inherited sink.

\* C33 (as stated): with the send_to_splunk inherited from BaseStatusMonitor
\* (status_report stays None) every delivery of a run gives a boolean, and a
\* run over a non-empty batch delivers every row and reaches the commit.
C33_InheritedSinkDelivers ==
    (~sink_mocked /\ status_report = <<>> /\ sent # <<>>) =>
        /\ \A i \in 1..Len(sent) : sent[i][2] \in {"true", "false"}
        /\ pc = "done" => (Len(sent) = Len(events) /\ db_log[Len(db_log)] = "update")

----
\* Two calls of get_last_checkpoint that interleave.

\* C31 (as stated): when two calls of get_last_checkpoint for the same absent
\* key interleave, both reading before either inserts, and both have returned,
\* the table holds at most one row for the key.
C31_RaceKeepsKeyUnique ==
    \A p \in Callers, q \in Callers :
        (/\ p # q
         /\ callers[p].pc = "returned"
         /\ callers[q].pc = "returned"
         /\ callers[p].monitor_type = callers[q].monitor_type)
        => Len(store[Key(callers[p].monitor_type)]) <= 1

----
\* A status fetch that fails.

\* C34: when the status fetch of a poller fails, generate_status_report has
\* raised out of process_all_regions: no report is kept and nothing has been
\* sent to the sink, and the one step main() takes from there prints an error
\* line and returns, without a send and without raising.
C34_FetchFailure ==
    [][poll_pc = "raised" =>
          /\ status_report = <<>>
          /\ region_sends = <<>>
          /\ calls' = <<"print_error">>
          /\ poll_pc' = "returned"
          /\ region_sends' = <<>>]_vars

\* main() of a poller has returned after a fetch that failed.
C34_Witness ==
    /\ poll_pc = "returned"
    /\ calls = <<"print_error">>
    /\ status_report = <<>>
    /\ region_sends = <<>>

----
\* last_updated of a region.

\* The greatest of a set of timestamps, None (NoTime) when none of them is set.
Greatest(S) ==
    IF \A t \in S : t = NoTime THEN NoTime
    ELSE CHOOSE t \in S : t # NoTime /\ \A u \in S : u <= t

\* The timestamps of the components of the Prefect API.
PrefectTimes == {raw_data[i].updated : i \in 1..Len(raw_data)}

\* The timestamps of the components of the Snowflake API that are of the group.
SnowflakeTimes(group_id) ==
    {raw_data[i].updated_at :
        i \in {j \in 1..Len(raw_data) : raw_data[j].group_id = group_id}}

\* C35: the last_updated that get_component_status returns for a region is the
\* greatest update timestamp of the components it counted, for Snowflake those
\* of the requested group, and None when none of them carries a timestamp.
C35_RegionLastUpdated ==
    status_report # <<>> =>
        /\ technology = "prefect" =>
              Regions[1].data.last_updated = Greatest(PrefectTimes)
        /\ technology = "snowflake" =>
              \A i \in 1..Len(Regions) :
                  Regions[i].data.last_updated =
                      Greatest(SnowflakeTimes(Snowflake_regions_of_interest[i].group_id))

\* Reports in which the greatest timestamp is not that of the last component:
\* Prefect, and Snowflake with a later component of another group.
C35_Witness ==
    /\ status_report # <<>>
    /\ Len(raw_data) = 2
    /\ \/ /\ technology = "prefect"
          /\ raw_data[1].updated > raw_data[2].updated
          /\ raw_data[2].updated # NoTime
          /\ Regions[1].data.last_updated = raw_data[1].updated
       \/ /\ technology = "snowflake"
          /\ raw_data[1].group_id = Snowflake_regions_of_interest[1].group_id
          /\ raw_data[2].group_id # raw_data[1].group_id
          /\ raw_data[2].updated_at > raw_data[1].updated_at
          /\ raw_data[1].updated_at # NoTime
          /\ Regions[1].data.last_updated = raw_data[1].updated_at

----
\* The incidents of a Snowflake region.

\* The ids of the incidents that have a component of the group, in the order
\* of the API.
IdsOfGroup(group_id) ==
    LET hits == SelectSeq(raw_incidents,
                          LAMBDA incident :
                              group_id \in {incident.components[j] :
                                               j \in 1..Len(incident.components)})
    IN  [i \in 1..Len(hits) |-> hits[i].id]

\* C36: for each region of the Snowflake report, the incidents entry holds, in
\* input order, exactly the incidents with at least one component of the
\* region's group, and the report has an incidents entry for the region if and
\* only if there is such an incident.
C36_RegionIncidents ==
    report_incidents # <<>> =>
        \A i \in 1..Len(Snowflake_regions_of_interest) :
            LET region == Snowflake_regions_of_interest[i]
                expected == IdsOfGroup(region.group_id)
                entries == report_incidents[1]
            IN  /\ region.name \in DOMAIN entries <=> expected # <<>>
                /\ region.name \in DOMAIN entries =>
                      /\ Len(entries[region.name]) = Len(expected)
                      /\ \A n \in 1..Len(expected) :
                            entries[region.name][n].id = expected[n]

\* Two incidents of the first region, the first one by its second component,
\* and none of the second region: one entry, both incidents in order.
C36_Witness ==
    /\ report_incidents # <<>>
    /\ Len(raw_incidents) = 2
    /\ raw_incidents[1].components = <<"other", "4pbr6y23kkht">>
    /\ raw_incidents[2].components = <<"4pbr6y23kkht">>
    /\ DOMAIN report_incidents[1] = {Snowflake_regions_of_interest[1].name}
    /\ Len(report_incidents[1][Snowflake_regions_of_interest[1].name]) = 2

----
\* The lists of get_service_health.

HealthListNames == {"advisories", "maintenance", "issues", "security"}

\* The lists of the returned health data that hold the event with this id.
ListsWith(id) ==
    {name \in HealthListNames :
        \E n \in 1..Len(service_health[1][name]) : service_health[1][name][n].id = id}

\* The event lists a region of interest among its locations.
OfInterest(event) ==
    \E j \in 1..Len(event.impactedRegions) :
        Lower(event.impactedRegions[j]) \in Elems(Azure_regions_of_interest)

\* The event is referred to by an entry of impacted_resources.
ReferredTo(id) ==
    \E rid \in DOMAIN service_health[1].impacted_resources :
        \E n \in 1..Len(service_health[1].impacted_resources[rid].events) :
            service_health[1].impacted_resources[rid].events[n].event_id = id

\* C37: get_service_health puts each fetched event into at most one of the
\* lists advisories, maintenance, issues, security, and once; two events of
\* interest with the same event type go to the same list; an event that lists
\* no region of interest is in none of the lists and no entry of
\* impacted_resources refers to it.
C37_EventCategorization ==
    service_health # <<>> =>
        \A i \in 1..Len(raw_data) :
            /\ Cardinality(ListsWith(i)) <= 1
            /\ \A name \in HealthListNames :
                  Cardinality({n \in 1..Len(service_health[1][name]) :
                                  service_health[1][name][n].id = i}) <= 1
            /\ \A j \in 1..Len(raw_data) :
                  (/\ OfInterest(raw_data[i])
                   /\ OfInterest(raw_data[j])
                   /\ raw_data[i].eventType = raw_data[j].eventType)
                  => ListsWith(i) = ListsWith(j)
            /\ ~OfInterest(raw_data[i]) => (ListsWith(i) = {} /\ ~ReferredTo(i))

\* A security advisory of a region of interest is in the advisories only, and
\* an event of another region with the same resource is in no list and the
\* entry of the resource does not refer to it.
C37_Witness ==
    /\ service_health # <<>>
    /\ Len(raw_data) = 2
    /\ raw_data[1].eventType = "SecurityAdvisory"
    /\ raw_data[1].impactedRegions = <<"eastus2">>
    /\ raw_data[1].impactedServices = <<"r1">>
    /\ raw_data[2].impactedRegions = <<"westus">>
    /\ raw_data[2].impactedServices = <<"r1">>
    /\ ListsWith(1) = {"advisories"}
    /\ ListsWith(2) = {}
    /\ ReferredTo(1)
    /\ Len(service_health[1].impacted_resources["r1"].events) = 1

----
\* The accumulator of _process_impacted_resources.

\* How often the resource occurs in impactedServices of the event.
Occurrences(rid, event) ==
    Cardinality({j \in 1..Len(event.impactedServices) : event.impactedServices[j] = rid})

\* C38: after any sequence of calls of _process_impacted_resources on one
\* dict, the dict has an entry for each resource id that occurred and no other;
\* regions_affected of every entry holds regions of interest only and none
\* twice; events of every entry holds one reference for each occurrence of the
\* resource in each event, in the order the events were processed.
C38_Accumulator ==
    /\ DOMAIN impacted_resources =
          {rid \in ResourceIds \ {""} :
              \E i \in 1..Len(folded) : Occurrences(rid, folded[i]) > 0}
    /\ \A rid \in DOMAIN impacted_resources :
          LET entry == impacted_resources[rid]
          IN  /\ Elems(entry.regions_affected) \subseteq Elems(Azure_regions_of_interest)
              /\ \A a \in 1..Len(entry.regions_affected), b \in 1..Len(entry.regions_affected) :
                    a # b => entry.regions_affected[a] # entry.regions_affected[b]
              /\ \A i \in 1..Len(folded) :
                    Cardinality({n \in 1..Len(entry.events) : entry.events[n].event_id = i})
                        = Occurrences(rid, folded[i])
              /\ \A a \in 1..Len(entry.events), b \in 1..Len(entry.events) :
                    a < b => entry.events[a].event_id <= entry.events[b].event_id

\* A resource that occurs twice in the first event and once in the second, with
\* a region listed twice and in two spellings: three references, two regions.
C38_Witness ==
    /\ Len(folded) = 2
    /\ folded[1].impactedServices = <<"r1", "r1">>
    /\ folded[1].impactedRegions = <<"eastus2", "eastus2">>
    /\ folded[2].impactedServices = <<"r1", "r2">>
    /\ folded[2].impactedRegions = <<"eastus2", "CentralUS">>
    /\ impacted_resources["r1"].regions_affected = <<"eastus2", "centralus">>
    /\ Len(impacted_resources["r1"].events) = 3
    /\ Len(impacted_resources["r2"].events) = 1


====
